---- MODULE Spec2Model ----
(***************************************************************************)
(* State-machine model of demi_epoll: the socket state machine             *)
(* (socket_wrapper.c), the epoll item container and ready-list             *)
(* (epoll_wrapper.c, list.h), the marshaller (utils.c) and the public      *)
(* entry points (impls.c), run against an abstract token-based backend.    *)
(***************************************************************************)
EXTENDS Integers, Sequences, FiniteSets, TLC

\* ------------------------------------------------------------------------
\* Bounds of the model
\* ------------------------------------------------------------------------
MaxSockets == 3
MaxTok == 5
MaxEvents == 2
MaxLen == 3
MaxSlots == 5

\* ------------------------------------------------------------------------
\* Program constants
\* ------------------------------------------------------------------------
EPOLLIN == 1
EPOLLOUT == 4
DPOLL_EPOLL_OFFSET == 65536
DPOLL_SOCKET_OFFSET == 66560
DPOLL_DEFAULT_READ_SIZE == 1024

NULL == -1

\* epoll sets alive at once: one more than the handles between the offsets
MaxEpolls == DPOLL_SOCKET_OFFSET - DPOLL_EPOLL_OFFSET + 1

VARIABLES
    sockets,    \* soc_buf.items: the socket slab, a sequence of socket_t
    tokens,     \* backend: the tokens submitted and not yet harvested
    next_tok,   \* backend: the next queue token to hand out
    next_qd,    \* backend: the next queue descriptor to hand out
    qds,        \* backend: the queue descriptors not yet closed, with their state
    ep,         \* the epoll set (epoll_t): tree of items and ready_list head
    items,      \* the heap of epoll_item_t, by item address
    kernel,     \* the kernel FD registered through ep->epollfd
    epoll_buf,  \* epoll_buf: the slab of epoll sets; ep is its slot 0
    call,       \* position of the single caller thread inside a public call
    ret         \* what the last public call returned to the caller

vars == <<sockets, tokens, next_tok, next_qd, qds, ep, items, kernel, epoll_buf, call, ret>>

\* ------------------------------------------------------------------------
\* Scatter-gather arrays: a sequence of segments, each a sequence of bytes.
\* sga_numsegs == 0 is the empty sequence.
\* ------------------------------------------------------------------------
EmptySga == << >>

RECURSIVE SgaBytes(_)
SgaBytes(sga) ==
    IF Len(sga) = 0 THEN << >> ELSE Head(sga) \o SgaBytes(Tail(sga))

Min(a, b) == IF a < b THEN a ELSE b

sga_is_empty(slot) == Len(slot.elem) = 0

\* copy_sga_into_buf: the loop over the segments.  i is the segment index,
\* cur the offset still to skip, remaining the room left in buf, out the
\* bytes copied so far.  The result says whether the loop ran to its end
\* (the function then returns true) and what was copied.
RECURSIVE copy_sga_loop(_, _, _, _, _)
copy_sga_loop(sga, i, cur, remaining, out) ==
    IF i > Len(sga) THEN [emptied |-> TRUE, out |-> out]
    ELSE LET seg_len == Len(sga[i]) IN
         IF cur >= seg_len
         THEN copy_sga_loop(sga, i + 1, cur - seg_len, remaining, out)
         ELSE LET seg_remaining == seg_len - cur
                  to_copy == Min(remaining, seg_remaining)
                  out1 == out \o SubSeq(sga[i], cur + 1, cur + to_copy)
              IN IF remaining - to_copy = 0
                 THEN [emptied |-> FALSE, out |-> out1]
                 ELSE copy_sga_loop(sga, i + 1, 0, remaining - to_copy, out1)

\* copy_sga_into_buf that starts every copy at the first byte of the SGA
copy_sga_into_buf_from_start(buf, buf_len, sga, offset) ==
    IF ~buf THEN [emptied |-> FALSE, offset |-> offset, out |-> << >>]
    ELSE LET r == copy_sga_loop(sga, 1, 0, buf_len, << >>)
         IN [emptied |-> r.emptied, offset |-> offset + Len(r.out), out |-> r.out]

\* copy_sga_into_buf(buf, buf_len, sga, &offset); buf is TRUE for a non-null
\* buffer.  Returns the flag, the new offset and the bytes put into buf.
copy_sga_into_buf(buf, buf_len, sga, offset) ==
    IF ~buf THEN [emptied |-> FALSE, offset |-> offset, out |-> << >>]
    ELSE LET r == copy_sga_loop(sga, 1, offset, buf_len, << >>)
         IN [emptied |-> r.emptied, offset |-> offset + Len(r.out), out |-> r.out]

\* demi_sgaalloc(size): a backend buffer of the given capacity; the backend
\* chooses the segmentation.  segs is the sequence of segment lengths.
Zeros(n) == [k \in 1..n |-> 0]
demi_sgaalloc(segs) == [k \in 1..Len(segs) |-> Zeros(segs[k])]

\* the segmentations the backend may choose for a buffer of `size` bytes
Segmentations(size) ==
    IF size = 0 THEN {<< >>}
    ELSE {<<size>>} \cup {<<a, size - a>> : a \in 1..(size - 1)}

\* copy_buf_into_sga: fill the segments in order.  overrun is the failed
\* assertion seg <= sga_numsegs.
RECURSIVE copy_buf_loop(_, _, _, _, _)
copy_buf_loop(buf, len, sga, copied, seg) ==
    IF ~(copied < len) THEN [sga |-> sga, copied |-> copied, overrun |-> FALSE]
    ELSE IF seg > Len(sga) THEN [sga |-> sga, copied |-> copied, overrun |-> TRUE]
    ELSE LET diff == Min(len - copied, Len(sga[seg]))
             filled == [k \in 1..Len(sga[seg]) |->
                          IF k <= diff THEN buf[copied + k] ELSE sga[seg][k]]
         IN copy_buf_loop(buf, len, [sga EXCEPT ![seg] = filled], copied + diff, seg + 1)

\* copy_buf_into_sga that fills the first segment only
copy_buf_into_first_seg(buf, len, sga) ==
    IF Len(sga) = 0 THEN [sga |-> sga, copied |-> 0, overrun |-> len > 0]
    ELSE LET diff == Min(len, Len(sga[1]))
         IN [sga |-> [sga EXCEPT ![1] = [k \in 1..Len(sga[1]) |->
                                           IF k <= diff THEN buf[k] ELSE sga[1][k]]],
             copied |-> diff, overrun |-> FALSE]

copy_buf_into_sga(buf, len, sga) == copy_buf_loop(buf, len, sga, 0, 1)

\* ------------------------------------------------------------------------
\* The backend.  A token is outstanding from its submission until a wait
\* returns its completion.  tokens maps each outstanding token to
\*   qd      the queue descriptor it was submitted on
\*   op      "accept", "push" or "pop"
\*   done    whether the backend has completed it
\*   opcode  qr_opcode of the completion
\*   sga     qr_value.sga, aqd  qr_value.ares.qd, addr  qr_value.ares.addr,
\*   err     qr_ret
\* ------------------------------------------------------------------------
NoRes == [opcode |-> "INVALID", sga |-> EmptySga, aqd |-> 0, addr |-> 0, err |-> ""]

\* the address of the peer behind the connection the backend hands out as
\* queue descriptor qd: every connection has a peer of its own
PeerAddr(qd) == 1000 + qd

Submit(m, qd, op) ==
    [m EXCEPT !.tokens = m.tokens @@
                 (m.next_tok :> [qd |-> qd, op |-> op, done |-> FALSE, res |-> NoRes]),
              !.next_tok = m.next_tok + 1]

Harvest(m, tok) ==
    [m EXCEPT !.tokens = [t \in (DOMAIN m.tokens) \ {tok} |-> m.tokens[t]]]

\* demi_wait(&res, tok, &ZERO): "ok" with the result, "ETIMEDOUT", or
\* "EINVAL" for a token the backend does not know.
demi_wait_zero(m, tok) ==
    IF tok \notin DOMAIN m.tokens THEN "EINVAL"
    ELSE IF m.tokens[tok].done THEN "ok" ELSE "ETIMEDOUT"

\* ------------------------------------------------------------------------
\* socket_t.  recv and accept share storage (a union): their base (tok,
\* pending) is the field recv, the accept result's qd is accept_qd and its
\* addr is accept_addr.  addr is the stored address of the socket.
\* ------------------------------------------------------------------------
IdleSlot == [tok |-> 0, pending |-> FALSE, elem |-> EmptySga]

socket_is_accepting(soc) == soc.recv_off = -1
accept_is_empty(soc) == soc.accept_qd = -1

socket_can_write(soc) == sga_is_empty(soc.send) /\ ~soc.send.pending
\* socket_can_read that holds only for an SGA no read has touched
socket_can_read_fresh(soc) ==
    ~soc.recv.pending /\ ~sga_is_empty(soc.recv) /\ soc.recv_off = 0
socket_can_read(soc) == ~soc.recv.pending /\ ~sga_is_empty(soc.recv)
socket_can_accept(soc) == ~soc.recv.pending /\ ~accept_is_empty(soc)

\* sga_free: demi_sgafree, then numsegs = 0 and pending = false (every
\* caller has checked !sga_is_empty, which sga_free asserts)
sga_free(slot) == [slot EXCEPT !.elem = EmptySga, !.pending = FALSE]

\* the machine state the C functions work on
Machine ==
    [sockets |-> sockets, tokens |-> tokens, next_tok |-> next_tok,
     next_qd |-> next_qd, qds |-> qds]

Result(m, r, e, out, abort) ==
    [m |-> m, ret |-> r, errno |-> e, out |-> out, abort |-> abort]

SetSoc(m, i, soc) == [m EXCEPT !.sockets[i] = soc]

\* maybe_read that submits a pop whenever no SGA is buffered, pending or not
maybe_read_resubmits(m, i, buf, len) ==
    LET soc == m.sockets[i] IN
    IF sga_is_empty(soc.recv)
    THEN LET soc1 == [soc EXCEPT !.recv.pending = TRUE, !.recv.tok = m.next_tok]
         IN Result(Submit(SetSoc(m, i, soc1), soc.qd, "pop"), -1, "EWOULDBLOCK", << >>, FALSE)
    ELSE LET c == copy_sga_into_buf(buf, len, soc.recv.elem, soc.recv_off)
             soc2 == [soc EXCEPT !.recv_off = c.offset]
             soc3 == IF c.emptied THEN [soc2 EXCEPT !.recv = sga_free(soc2.recv)] ELSE soc2
         IN Result(SetSoc(m, i, soc3), c.offset - soc.recv_off, "", c.out, FALSE)

\* maybe_read(soc, buf, len)
maybe_read(m, i, buf, len) ==
    LET soc == m.sockets[i] IN
    IF sga_is_empty(soc.recv) /\ ~soc.recv.pending
    THEN LET soc1 == [soc EXCEPT !.recv.pending = TRUE, !.recv.tok = m.next_tok]
         IN Result(Submit(SetSoc(m, i, soc1), soc.qd, "pop"), -1, "EWOULDBLOCK", << >>, FALSE)
    ELSE LET w == IF soc.recv.pending THEN demi_wait_zero(m, soc.recv.tok) ELSE "none"
         IN IF w = "ETIMEDOUT" THEN Result(m, -1, "EWOULDBLOCK", << >>, FALSE)
            ELSE IF w = "EINVAL" THEN Result(m, -1, "", << >>, TRUE)
            ELSE LET soc1 == IF w = "ok"
                             THEN [soc EXCEPT !.recv.pending = FALSE,
                                              !.recv_off = 0,
                                              !.recv.elem = m.tokens[soc.recv.tok].res.sga]
                             ELSE soc
                     m1 == IF w = "ok" THEN Harvest(m, soc.recv.tok) ELSE m
                 IN IF sga_is_empty(soc1.recv)
                    THEN Result(SetSoc(m1, i, soc1), -1, "", << >>, TRUE)
                    ELSE LET c == copy_sga_into_buf(buf, len, soc1.recv.elem, soc1.recv_off)
                             soc2 == [soc1 EXCEPT !.recv_off = c.offset]
                             soc3 == IF c.emptied
                                     THEN [soc2 EXCEPT !.recv = sga_free(soc2.recv)]
                                     ELSE soc2
                         IN Result(SetSoc(m1, i, soc3), c.offset - soc1.recv_off,
                                   "", c.out, FALSE)

\* maybe_write that gives up the push whose probe timed out
maybe_write_forgets(m, i, buf, len, segs) ==
    LET soc == m.sockets[i]
        w == IF soc.send.pending THEN demi_wait_zero(m, soc.send.tok) ELSE "none"
    IN IF w = "ETIMEDOUT"
       THEN Result(SetSoc(m, i, [soc EXCEPT !.send.pending = FALSE]),
                   -1, "EWOULDBLOCK", << >>, FALSE)
       ELSE IF w = "EINVAL" THEN Result(m, -1, "", << >>, TRUE)
       ELSE LET soc1 == IF w = "ok" THEN [soc EXCEPT !.send = sga_free(soc.send)] ELSE soc
                m1 == IF w = "ok" THEN Harvest(m, soc.send.tok) ELSE m
                c == copy_buf_into_sga(buf, len, demi_sgaalloc(segs))
                soc2 == [soc1 EXCEPT !.send.elem = c.sga,
                                     !.send.tok = m1.next_tok,
                                     !.send.pending = TRUE]
            IN IF ~sga_is_empty(soc1.send) \/ Len(segs) = 0 \/ c.overrun
               THEN Result(SetSoc(m1, i, soc1), -1, "", << >>, TRUE)
               ELSE Result(Submit(SetSoc(m1, i, soc2), soc.qd, "push"),
                           c.copied, "", << >>, FALSE)

\* maybe_write(soc, buf, len); segs is the segmentation demi_sgaalloc picks
maybe_write(m, i, buf, len, segs) ==
    LET soc == m.sockets[i]
        w == IF soc.send.pending THEN demi_wait_zero(m, soc.send.tok) ELSE "none"
    IN IF w = "ETIMEDOUT" THEN Result(m, -1, "EWOULDBLOCK", << >>, FALSE)
       ELSE IF w = "EINVAL" THEN Result(m, -1, "", << >>, TRUE)
       ELSE LET soc1 == IF w = "ok" THEN [soc EXCEPT !.send = sga_free(soc.send)] ELSE soc
                m1 == IF w = "ok" THEN Harvest(m, soc.send.tok) ELSE m
            IN IF ~sga_is_empty(soc1.send)
               THEN Result(SetSoc(m1, i, soc1), -1, "", << >>, TRUE)   \* "unreachable state"
               ELSE IF Len(segs) = 0
               THEN Result(SetSoc(m1, i, soc1), -1, "", << >>, TRUE)   \* sga_new's assertion
               ELSE LET c == copy_buf_into_sga(buf, len, demi_sgaalloc(segs))
                        soc2 == [soc1 EXCEPT !.send.elem = c.sga,
                                             !.send.tok = m1.next_tok,
                                             !.send.pending = TRUE]
                    IN IF c.overrun
                       THEN Result(SetSoc(m1, i, soc1), -1, "", << >>, TRUE)
                       ELSE Result(Submit(SetSoc(m1, i, soc2), soc.qd, "push"),
                                   c.copied, "", << >>, FALSE)

\* maybe_accept(soc, addr)
maybe_accept(m, i) ==
    LET soc == m.sockets[i] IN
    IF accept_is_empty(soc)
    THEN LET soc1 == [soc EXCEPT !.recv.tok = m.next_tok, !.recv.pending = TRUE]
         IN Result(Submit(SetSoc(m, i, soc1), soc.qd, "accept"), -1, "EWOULDBLOCK", << >>, FALSE)
    ELSE LET w == IF soc.recv.pending THEN demi_wait_zero(m, soc.recv.tok) ELSE "none"
         IN IF w = "ETIMEDOUT" THEN Result(m, -1, "EWOULDBLOCK", << >>, FALSE)
            ELSE IF w = "EINVAL" THEN Result(m, -1, "", << >>, TRUE)
            ELSE LET res == IF w = "ok" THEN m.tokens[soc.recv.tok].res ELSE NoRes
                     m1 == IF w = "ok" THEN Harvest(m, soc.recv.tok) ELSE m
                 IN IF w = "ok" /\ res.opcode \notin {"ACCEPT", "FAILED"}
                    THEN Result(m1, -1, "", << >>, TRUE)
                    ELSE IF w = "ok" /\ res.opcode = "FAILED"
                    THEN Result(m1, -1, res.err, << >>, FALSE)
                    ELSE LET qd == IF w = "ok" THEN res.aqd ELSE soc.accept_qd
                             addr == IF w = "ok" THEN res.addr ELSE soc.accept_addr
                             \* accept_free
                             soc1 == [soc EXCEPT !.accept_qd = -1, !.accept_addr = addr,
                                                 !.recv.pending = FALSE]
                         IN Result(SetSoc(m1, i, soc1), qd, "", <<addr>>, FALSE)

\* socket_init(soc): memset, accept_free, demi_socket; the socket is open
socket_init(m) ==
    LET soc == [open |-> TRUE, qd |-> m.next_qd, recv_off |-> 0,
                send |-> IdleSlot, recv |-> IdleSlot, accept_qd |-> -1,
                accept_addr |-> 0, addr |-> 0]
    IN [m EXCEPT !.sockets = Append(m.sockets, soc),
                 !.next_qd = m.next_qd + 1,
                 !.qds = m.qds @@ (m.next_qd :> "fresh")]

\* socket_handle_event(soc, res)
socket_handle_event(m, i, res) ==
    LET soc == m.sockets[i] IN
    IF res.opcode \notin {"ACCEPT", "PUSH", "POP"} THEN [m |-> m, abort |-> TRUE]
    ELSE IF res.opcode = "ACCEPT"
    THEN IF ~socket_is_accepting(soc) THEN [m |-> m, abort |-> TRUE]
         ELSE [m |-> SetSoc(m, i, [soc EXCEPT !.recv.pending = FALSE,
                                              !.accept_qd = res.aqd,
                                              !.accept_addr = res.addr]),
               abort |-> FALSE]
    ELSE IF res.opcode = "POP"
    THEN IF socket_is_accepting(soc) THEN [m |-> m, abort |-> TRUE]
         ELSE [m |-> SetSoc(m, i, [soc EXCEPT !.recv.pending = FALSE,
                                              !.recv_off = 0,
                                              !.recv.elem = res.sga]),
               abort |-> FALSE]
    ELSE [m |-> SetSoc(m, i, [soc EXCEPT !.send.pending = FALSE,
                                         !.send.elem = res.sga]),
          abort |-> FALSE]

\* maybe_readv(soc, iovs, iovs_cnt): lens are the iov_len of the iovecs
RECURSIVE maybe_readv_loop(_, _, _, _, _, _)
maybe_readv_loop(m, i, lens, k, read, out) ==
    IF k > Len(lens) THEN Result(m, read, "", out, FALSE)
    ELSE LET r == maybe_read(m, i, TRUE, lens[k]) IN
         IF r.abort THEN r
         ELSE IF r.ret < 0
         THEN IF read = 0 THEN Result(r.m, -1, r.errno, out, FALSE)
              ELSE Result(r.m, read, r.errno, out, r.errno # "EWOULDBLOCK")
         ELSE IF r.ret < lens[k]
         THEN Result(r.m, read + r.ret, "", out \o r.out, FALSE)
         ELSE maybe_readv_loop(r.m, i, lens, k + 1, read + r.ret, out \o r.out)

maybe_readv(m, i, lens) == maybe_readv_loop(m, i, lens, 1, 0, << >>)

\* copy_iovs_into_sga(iov, iov_cnt, sga): k is the iovec, copied the bytes
\* of it already copied, seg_off and buf_off the position in the SGA.  ub
\* says that the loop read past the end of an iovec or of sga_segs.
RECURSIVE copy_iovs_loop(_, _, _, _, _, _)
copy_iovs_loop(iov, k, copied, sga, seg_off, buf_off) ==
    IF k > Len(iov) THEN [sga |-> sga, ub |-> FALSE]
    ELSE IF ~(copied < Len(iov[k])) THEN copy_iovs_loop(iov, k + 1, 0, sga, seg_off, buf_off)
    ELSE IF seg_off + 1 > Len(sga) THEN [sga |-> sga, ub |-> TRUE]
    ELSE LET seg == sga[seg_off + 1]
             to_copy == Min(Len(iov[k]), Len(seg) - buf_off)
         IN IF copied + to_copy > Len(iov[k]) THEN [sga |-> sga, ub |-> TRUE]
            ELSE LET filled == [b \in 1..Len(seg) |->
                                  IF b > buf_off /\ b <= buf_off + to_copy
                                  THEN iov[k][copied + (b - buf_off)] ELSE seg[b]]
                     sga1 == [sga EXCEPT ![seg_off + 1] = filled]
                 IN IF buf_off + to_copy >= Len(seg)
                    THEN copy_iovs_loop(iov, k, copied + to_copy, sga1, seg_off + 1, 0)
                    ELSE copy_iovs_loop(iov, k, copied + to_copy, sga1, seg_off,
                                        buf_off + to_copy)

copy_iovs_into_sga(iov, sga) == copy_iovs_loop(iov, 1, 0, sga, 0, 0)

RECURSIVE total_size(_)
total_size(iov) == IF Len(iov) = 0 THEN 0 ELSE Len(Head(iov)) + total_size(Tail(iov))

\* maybe_writev(soc, iov, iov_cnt); segs is the segmentation demi_sgaalloc
\* picks.  Reading past an iovec or past sga_segs is undefined: the call
\* ends the process here.
maybe_writev(m, i, iov, segs) ==
    LET soc == m.sockets[i]
        w == IF soc.send.pending THEN demi_wait_zero(m, soc.send.tok) ELSE "none"
    IN IF w = "ETIMEDOUT" THEN Result(m, -1, "EWOULDBLOCK", << >>, FALSE)
       ELSE IF w = "EINVAL" THEN Result(m, -1, "", << >>, TRUE)
       ELSE IF w = "ok" /\ m.tokens[soc.send.tok].res.opcode # "PUSH"
       THEN Result(m, -1, "", << >>, TRUE)
       ELSE LET soc1 == IF w = "ok" THEN [soc EXCEPT !.send = sga_free(soc.send)] ELSE soc
                m1 == IF w = "ok" THEN Harvest(m, soc.send.tok) ELSE m
            IN IF ~sga_is_empty(soc1.send)
               THEN Result(SetSoc(m1, i, soc1), -1, "", << >>, TRUE)
               ELSE IF total_size(iov) = 0
               THEN Result(SetSoc(m1, i, soc1), 0, "", << >>, FALSE)
               ELSE LET c == copy_iovs_into_sga(iov, demi_sgaalloc(segs))
                        soc2 == [soc1 EXCEPT !.send.elem = c.sga,
                                             !.send.tok = m1.next_tok,
                                             !.send.pending = TRUE]
                    IN IF c.ub
                       THEN Result(SetSoc(m1, i, soc1), -1, "", << >>, TRUE)
                       ELSE Result(Submit(SetSoc(m1, i, soc2), soc.qd, "push"),
                                   total_size(iov), "", << >>, FALSE)

\* ------------------------------------------------------------------------
\* list.h: the intrusive circular list.  I is the item heap, pointers are
\* item addresses.  Assignments are applied in the order of the C code.
\* ------------------------------------------------------------------------
LIST_HEAD_INIT(I, h) == [I EXCEPT ![h].next = h, ![h].prev = h]

list_add(I, head, new) ==
    LET nxt == I[head].next
        I1 == [I EXCEPT ![nxt].prev = new]
        I2 == [I1 EXCEPT ![new].next = nxt]
        I3 == [I2 EXCEPT ![new].prev = head]
    IN [I3 EXCEPT ![head].next = new]

\* list_add_to_head(&head, new): returns the heap and the head pointer
list_add_to_head(I, head, new) ==
    IF head # NULL THEN [I |-> list_add(I, head, new), head |-> head]
    ELSE [I |-> LIST_HEAD_INIT(I, new), head |-> new]

list_remove(I, node) ==
    LET I1 == [I EXCEPT ![I[node].next].prev = I[node].prev]
    IN [I1 EXCEPT ![I1[node].prev].next = I1[node].next]

list_is_empty(I, head) == I[head].next = head

list_contains_elem(I, head, elem) == (head = elem) \/ ~list_is_empty(I, elem)

\* free(it): the memory of a freed item stays in the heap only while a
\* pointer of the program still holds its address
free_items(I, ready_list) ==
    [a \in {a \in DOMAIN I :
               \/ I[a].live
               \/ ready_list = a
               \/ \E b \in (DOMAIN I) \ {a} : I[b].next = a \/ I[b].prev = a} |-> I[a]]

\* ------------------------------------------------------------------------
\* Readiness.  An event mask is the set of its bits.
\* ------------------------------------------------------------------------
check_event(subev, epoll, func) ==
    IF epoll \in subev /\ func THEN {epoll} ELSE {}

\* C's a || b is the integer 1 when either operand is non-zero, and 1 is
\* the mask whose only bit is bit 0
LogicalOr(a, b) == IF a # {} \/ b # {} THEN {1} ELSE {}

\* available_events(it)
available_events(socs, it) ==
    LET soc == socs[it.soc] IN
    LogicalOr(check_event(it.subevs, EPOLLIN,
                          IF socket_is_accepting(soc) THEN socket_can_accept(soc)
                          ELSE socket_can_read(soc)),
              check_event(it.subevs, EPOLLOUT, socket_can_write(soc)))

Xor(a, b) == (a \ b) \cup (b \ a)

\* RB_FOREACH order: ascending backend queue descriptor
RECURSIVE TreeOrder(_, _, _)
TreeOrder(socs, I, tree) ==
    IF tree = {} THEN << >>
    ELSE LET first == CHOOSE a \in tree :
                         \A b \in tree : socs[I[a].soc].qd <= socs[I[b].soc].qd
         IN <<first>> \o TreeOrder(socs, I, tree \ {first})

\* ep_find_item(ep, qd)
ep_find_item(socs, I, tree, qd) ==
    IF \E a \in tree : socs[I[a].soc].qd = qd
    THEN CHOOSE a \in tree : socs[I[a].soc].qd = qd
    ELSE NULL

\* The RB_FOREACH loop of check_and_schedule_evs.  st carries the machine m,
\* the heap I, ready_list, delete_list, the collected tokens toks and the
\* abort flag; a is the item of the pass, i its socket.

\* if (avs != 0) list_add_to_head(&ep->ready_list, &it->ready_list_entry)
sweep_avs(st, a, avs) ==
    IF avs = {} THEN st
    ELSE LET l == list_add_to_head(st.I, st.ready_list, a)
         IN [st EXCEPT !.I = l.I, !.ready_list = l.head]

\* schedule(maybe_accept(soc, NULL)) or schedule(maybe_read(soc, NULL, ...))
schedule_in(m, i, soc) ==
    IF socket_is_accepting(soc)
    THEN IF accept_is_empty(soc) THEN maybe_accept(m, i)
         ELSE Result(m, 0, "", << >>, TRUE)      \* *addr with addr == NULL
    ELSE maybe_read(m, i, FALSE, DPOLL_DEFAULT_READ_SIZE)

\* the assertions of the EPOLLIN branch and toks[tok_count++] = recv tok;
\* r is the outcome of the scheduling call
sweep_in_tok(st, i, r) ==
    IF r.abort \/ ~(r.ret < 0 /\ r.errno = "EWOULDBLOCK")
       \/ ~r.m.sockets[i].recv.pending
    THEN [st EXCEPT !.m = r.m, !.abort = TRUE]
    ELSE [st EXCEPT !.m = r.m, !.toks = Append(st.toks, r.m.sockets[i].recv.tok)]

\* if (rem & EPOLLIN)
sweep_in(st, i, soc, rem) ==
    IF EPOLLIN \notin rem THEN st
    ELSE sweep_in_tok(st, i,
                      IF soc.recv.pending
                      THEN Result(st.m, -1, "EWOULDBLOCK", << >>, FALSE)
                      ELSE schedule_in(st.m, i, soc))

\* if (rem & EPOLLOUT)
sweep_out(st, i, rem) ==
    IF st.abort \/ EPOLLOUT \notin rem THEN st
    ELSE IF ~st.m.sockets[i].send.pending THEN [st EXCEPT !.abort = TRUE]
    ELSE [st EXCEPT !.toks = Append(st.toks, st.m.sockets[i].send.tok)]

\* the loop body for an open socket, from avs = available_events(it)
sweep_open(st, a, it, soc, avs) ==
    LET rem == Xor(avs, it.subevs)
    IN IF rem = {} THEN sweep_avs(st, a, avs)
       ELSE sweep_out(sweep_in(sweep_avs(st, a, avs), it.soc, soc, rem), it.soc, rem)

\* the loop body without its test of soc->open
sweep_item_any(st, a) ==
    sweep_open(st, a, st.I[a], st.m.sockets[st.I[a].soc],
               available_events(st.m.sockets, st.I[a]))

\* the loop body
sweep_item(st, a) ==
    LET it == st.I[a]
        soc == st.m.sockets[it.soc]
    IN IF ~soc.open
       THEN IF ~list_is_empty(st.I, a) THEN [st EXCEPT !.abort = TRUE]
            ELSE LET l == list_add_to_head(st.I, st.delete_list, a)
                 IN [st EXCEPT !.I = l.I, !.delete_list = l.head]
       ELSE sweep_open(st, a, it, soc, available_events(st.m.sockets, it))

RECURSIVE sweep_loop(_, _, _)
sweep_loop(st, order, k) ==
    IF k > Len(order) \/ st.abort THEN st
    ELSE sweep_loop(sweep_item(st, order[k]), order, k + 1)

\* if (delete_list): the eviction, whose do-while loop leaves after its
\* first pass; tree is ep->items before it
evict_delete_list(st, tree) ==
    [m |-> st.m,
     I |-> IF st.abort \/ st.delete_list = NULL THEN st.I
           ELSE [st.I EXCEPT ![st.delete_list].live = FALSE],
     tree |-> IF st.abort \/ st.delete_list = NULL THEN tree
              ELSE tree \ {st.delete_list},
     ready_list |-> st.ready_list,
     toks |-> st.toks,
     abort |-> st.abort]

\* check_and_schedule_evs(ep, &toks): the loop, then the eviction
check_and_schedule_evs(m, I, e) ==
    evict_delete_list(
        sweep_loop([m |-> m, I |-> I, ready_list |-> e.ready_list,
                    delete_list |-> NULL, toks |-> << >>, abort |-> FALSE],
                   TreeOrder(m.sockets, I, e.tree), 1),
        e.tree)

\* ep_drain_ready_list(ep, evs, evs_size): the while loop
RECURSIVE drain_loop(_, _, _, _, _)
drain_loop(socs, I, it, evs, evs_size) ==
    IF ~(Len(evs) < evs_size) THEN [I |-> I, it |-> it, evs |-> evs, null |-> FALSE]
    ELSE LET evs1 == Append(evs, [events |-> available_events(socs, I[it]),
                                  data |-> I[it].data, item |-> it])
         IN IF list_is_empty(I, it)
            THEN [I |-> I, it |-> it, evs |-> evs1, null |-> TRUE]
            ELSE LET I1 == list_remove(I, it)
                 IN drain_loop(socs, I1, I1[it].next, evs1, evs_size)

\* ep_drain_ready_list whose loop runs once more than evs_size allows
ep_drain_one_more(socs, I, ready_list, evs_size) ==
    IF evs_size = 0 \/ ready_list = NULL
    THEN [I |-> I, ready_list |-> ready_list, evs |-> << >>]
    ELSE LET d == drain_loop(socs, I, ready_list, << >>, evs_size + 1)
         IN [I |-> d.I,
             ready_list |-> IF d.null THEN NULL ELSE d.it,
             evs |-> d.evs]

ep_drain_ready_list(socs, I, ready_list, evs_size) ==
    IF evs_size = 0 \/ ready_list = NULL
    THEN [I |-> I, ready_list |-> ready_list, evs |-> << >>]
    ELSE LET d == drain_loop(socs, I, ready_list, << >>, evs_size)
         IN [I |-> d.I,
             ready_list |-> IF d.null THEN NULL ELSE d.it,
             evs |-> d.evs]

\* ------------------------------------------------------------------------
\* BUFFER_DEF: a slab {items, size, next_free}.  A slot of the union holds
\* its object or, once freed, the index of the next free slot; items maps
\* the freed slots to that index, every other slot below size holds an
\* object.
\* ------------------------------------------------------------------------
EmptyBuf == [size |-> 0, next_free |-> -1, items |-> << >>]

buf_is_live(b, fd) == 0 <= fd /\ fd < b.size /\ fd \notin DOMAIN b.items

\* name##_next() that hands out the head of the free-list and leaves it the
\* head
buf_next_keeps_head(b) ==
    IF b.next_free > -1
    THEN [fd |-> b.next_free,
          buf |-> [b EXCEPT !.items = [k \in (DOMAIN b.items) \ {b.next_free} |-> b.items[k]]]]
    ELSE [fd |-> b.size, buf |-> [b EXCEPT !.size = b.size + 1]]

\* name##_next(), and the caller's store of the object into the slot
buf_next(b) ==
    IF b.next_free > -1
    THEN [fd |-> b.next_free,
          buf |-> [b EXCEPT !.next_free = b.items[b.next_free],
                            !.items = [k \in (DOMAIN b.items) \ {b.next_free} |-> b.items[k]]]]
    ELSE [fd |-> b.size, buf |-> [b EXCEPT !.size = b.size + 1]]

\* name##_free(fd)
buf_free(b, fd) ==
    IF b.next_free # 0
    THEN [b EXCEPT !.next_free = fd,
                   !.items = [k \in (DOMAIN b.items) \cup {fd} |->
                                IF k = fd THEN -1 ELSE b.items[k]]]
    ELSE [b EXCEPT !.next_free = fd,
                   !.items = [k \in (DOMAIN b.items) \cup {fd} |->
                                IF k = fd THEN b.next_free ELSE b.items[k]]]

\* the descriptor ranges of impls.h
qd_is_dpoll(qd) == qd >= DPOLL_EPOLL_OFFSET
qd_is_epoll(qd) == qd >= DPOLL_EPOLL_OFFSET /\ qd < DPOLL_SOCKET_OFFSET
get_epoll_fd(qd) == qd - DPOLL_EPOLL_OFFSET
get_socket_fd(qd) == qd - DPOLL_SOCKET_OFFSET
maybe_add(r, off) == IF r > -1 THEN r + off ELSE -1

\* ------------------------------------------------------------------------
\* The caller thread.  call.pc is "idle" between public calls, "close",
\* "wait_any" or "epoll_pwait" at the blocking points inside one, and
\* "aborted" once an assertion or abort() has ended the process.
\* ------------------------------------------------------------------------
Idle ==
    [pc |-> "idle", s |-> 0, i |-> 0, toks |-> << >>, timeout |-> 0,
     epoll_timeout |-> 0, maxevents |-> 0, evs |-> << >>,
     swept_ready |-> FALSE, harvested |-> NULL, why |-> ""]

Aborted(why) == [Idle EXCEPT !.pc = "aborted", !.why = why]

Ret(c, s, r, e, out, evs) ==
    [call |-> c, s |-> s, ret |-> r, errno |-> e, out |-> out, evs |-> evs,
     harv |-> NULL, maxevents |-> 0]

Commit(m) ==
    /\ sockets' = m.sockets
    /\ tokens' = m.tokens
    /\ next_tok' = m.next_tok
    /\ next_qd' = m.next_qd
    /\ qds' = m.qds

\* an assertion fails or abort() is called: the process ends, and its slab,
\* its epoll set and its backend state end with it
Abort(why) ==
    /\ call' = Aborted(why)
    /\ sockets' = << >>
    /\ tokens' = << >>
    /\ next_tok' = 1
    /\ next_qd' = 1
    /\ qds' = << >>
    /\ ep' = [live |-> FALSE, tree |-> {}, ready_list |-> NULL]
    /\ items' = << >>
    /\ kernel' = [reg |-> FALSE, ready |-> FALSE]
    /\ epoll_buf' = EmptyBuf
    /\ UNCHANGED ret

Bytes(n) == [k \in 1..n |-> k]

\* what a pop can deliver: end of stream (one empty segment) or MaxLen
\* bytes in one or two segments
PopSgas ==
    {<< << >> >>, <<Bytes(MaxLen)>>}
    \cup {<<SubSeq(Bytes(MaxLen), 1, a), SubSeq(Bytes(MaxLen), a + 1, MaxLen)>> :
              a \in 1..(MaxLen - 1)}

WriteBufs == {Bytes(n) : n \in 1..MaxLen}

\* the iovecs of writev: the bytes 1..MaxLen split over two iovecs
Iovs == {<<SubSeq(Bytes(MaxLen), 1, a), SubSeq(Bytes(MaxLen), a + 1, MaxLen)>> :
            a \in 1..(MaxLen - 1)}

Timeouts == {-1, 0, 1}
Masks == {{EPOLLIN}, {EPOLLOUT}, {EPOLLIN, EPOLLOUT}}

Handle(i) == DPOLL_SOCKET_OFFSET + (i - 1)
Connected(i) == sockets[i].qd \in DOMAIN qds /\ qds[sockets[i].qd] = "connected"

Init ==
    /\ sockets = << >>
    /\ tokens = << >>
    /\ next_tok = 1
    /\ next_qd = 1
    /\ qds = << >>
    /\ ep = [live |-> FALSE, tree |-> {}, ready_list |-> NULL]
    /\ items = << >>
    /\ kernel = [reg |-> FALSE, ready |-> FALSE]
    /\ epoll_buf = EmptyBuf
    /\ call = Idle
    /\ ret = Ret("none", 0, 0, "", << >>, << >>)

\* dpoll_socket_impl
Socket ==
    /\ call.pc = "idle"
    /\ Len(sockets) < MaxSockets
    /\ Commit(socket_init(Machine))
    /\ ret' = Ret("socket", Len(sockets) + 1, Handle(Len(sockets) + 1), "", << >>, << >>)
    /\ UNCHANGED <<ep, items, kernel, epoll_buf, call>>

\* dpoll_listen_impl
Listen(i) ==
    /\ call.pc = "idle"
    /\ sockets[i].open
    /\ qds[sockets[i].qd] = "fresh"
    /\ sockets' = [sockets EXCEPT ![i].recv_off = -1]
    /\ qds' = [qds EXCEPT ![sockets[i].qd] = "listening"]
    /\ ret' = Ret("listen", i, 0, "", << >>, << >>)
    /\ UNCHANGED <<tokens, next_tok, next_qd, ep, items, kernel, epoll_buf, call>>

\* a public call that runs one of the maybe_ functions and returns
Returns(name, i, r) ==
    /\ r.m.next_tok <= MaxTok + 1
    /\ IF r.abort THEN Abort(name)
       ELSE /\ Commit(r.m)
            /\ ret' = Ret(name, i, r.ret, r.errno, r.out, << >>)
            /\ UNCHANGED <<ep, items, kernel, epoll_buf, call>>

\* dpoll_read_impl
Read(i, len) ==
    /\ call.pc = "idle"
    /\ sockets[i].open /\ Connected(i)
    /\ Returns("read", i, maybe_read(Machine, i, TRUE, len))

\* dpoll_readv_impl
Readv(i, lens) ==
    /\ call.pc = "idle"
    /\ sockets[i].open /\ Connected(i)
    /\ Returns("readv", i, maybe_readv(Machine, i, lens))

\* dpoll_write_impl
Write(i, buf, segs) ==
    /\ call.pc = "idle"
    /\ sockets[i].open /\ Connected(i)
    /\ Returns("write", i, maybe_write(Machine, i, buf, Len(buf), segs))

\* dpoll_writev_impl
Writev(i, iov, segs) ==
    /\ call.pc = "idle"
    /\ sockets[i].open /\ Connected(i)
    /\ Returns("writev", i, maybe_writev(Machine, i, iov, segs))

\* dpoll_accept_impl that leaves the new socket on the descriptor of its
\* socket_init
AcceptKeepsQd(i) ==
    /\ call.pc = "idle"
    /\ sockets[i].open
    /\ socket_is_accepting(sockets[i])
    /\ LET r == maybe_accept(Machine, i) IN
       /\ r.m.next_tok <= MaxTok + 1
       /\ IF r.abort THEN Abort("accept")
          ELSE IF r.ret < 0
          THEN /\ Commit(r.m)
               /\ ret' = Ret("accept", i, -1, r.errno, << >>, << >>)
               /\ UNCHANGED <<ep, items, kernel, epoll_buf, call>>
          ELSE /\ Len(sockets) < MaxSockets
               /\ LET m1 == socket_init(r.m)
                      fd == Len(m1.sockets)
                  IN Commit([m1 EXCEPT !.sockets[fd].addr = r.out[1]])
               /\ ret' = Ret("accept", i, Handle(Len(sockets) + 1), "", << >>, << >>)
               /\ UNCHANGED <<ep, items, kernel, epoll_buf, call>>

\* dpoll_accept_impl
Accept(i) ==
    /\ call.pc = "idle"
    /\ sockets[i].open
    /\ socket_is_accepting(sockets[i])
    /\ LET r == maybe_accept(Machine, i) IN
       /\ r.m.next_tok <= MaxTok + 1
       /\ IF r.abort THEN Abort("accept")
          ELSE IF r.ret < 0
          THEN /\ Commit(r.m)
               /\ ret' = Ret("accept", i, -1, r.errno, << >>, << >>)
               /\ UNCHANGED <<ep, items, kernel, epoll_buf, call>>
          ELSE /\ Len(sockets) < MaxSockets
               /\ LET m1 == socket_init(r.m)
                      fd == Len(m1.sockets)
                  IN Commit([m1 EXCEPT !.sockets[fd].qd = r.ret,
                                       !.sockets[fd].addr = r.out[1]])
               /\ ret' = Ret("accept", i, Handle(Len(sockets) + 1), "", << >>, << >>)
               /\ UNCHANGED <<ep, items, kernel, epoll_buf, call>>

\* the SGAs of the pushes in flight
PushedSgas ==
    {sockets[i].send.elem : i \in {j \in 1..Len(sockets) : sockets[j].send.pending}}

\* the completions the backend can produce for an operation: the failed
\* one, or the one of its kind.  qr_value.sga of a push completion is the
\* pushed SGA (demi/types.h) or left zeroed.
Completions(op) ==
    {[opcode |-> "FAILED", sga |-> EmptySga, aqd |-> 0, addr |-> 0, err |-> "ECONNRESET"]}
    \cup (IF op = "accept"
          THEN {[opcode |-> "ACCEPT", sga |-> EmptySga, aqd |-> next_qd,
                 addr |-> PeerAddr(next_qd), err |-> ""]}
          ELSE IF op = "pop"
          THEN {[opcode |-> "POP", sga |-> g, aqd |-> 0, addr |-> 0, err |-> ""] : g \in PopSgas}
          ELSE {[opcode |-> "PUSH", sga |-> g, aqd |-> 0, addr |-> 0, err |-> ""] :
                   g \in {EmptySga} \cup PushedSgas})

\* the backend completes an outstanding token
BackendComplete(t, res) ==
    /\ call.pc # "aborted"
    /\ t \in DOMAIN tokens
    /\ ~tokens[t].done
    /\ res \in Completions(tokens[t].op)
    /\ (res.opcode = "PUSH" /\ res.sga # EmptySga)
         => \E i \in 1..Len(sockets) :
               /\ sockets[i].send.pending /\ sockets[i].send.tok = t
               /\ sockets[i].send.elem = res.sga
    /\ IF res.opcode = "ACCEPT"
       THEN /\ next_qd' = next_qd + 1
            /\ qds' = qds @@ (next_qd :> "connected")
       ELSE UNCHANGED <<next_qd, qds>>
    /\ tokens' = [tokens EXCEPT ![t].done = TRUE, ![t].res = res]
    /\ UNCHANGED <<sockets, next_tok, ep, items, kernel, epoll_buf, call, ret>>

\* dpoll_close_impl on a socket: mark it closed and enter socket_destroy
Close(i) ==
    /\ call.pc = "idle"
    /\ sockets[i].open
    /\ sockets' = [sockets EXCEPT ![i].open = FALSE]
    /\ call' = [Idle EXCEPT !.pc = "close", !.s = i, !.i = 0]
    /\ UNCHANGED <<tokens, next_tok, next_qd, qds, ep, items, kernel, epoll_buf, ret>>

\* socket_destroy that frees a slot's SGA without waiting for its token
DestroySlotNoWait ==
    /\ call.pc = "close"
    /\ LET i == call.s
           soc == sockets[i]
           sgas_count == 2 - (IF socket_is_accepting(soc) THEN 1 ELSE 0)
           slot == IF call.i = 0 THEN soc.send ELSE soc.recv
       IN /\ call.i < sgas_count
          /\ sockets' = IF sga_is_empty(slot) THEN sockets
                        ELSE IF call.i = 0
                        THEN [sockets EXCEPT ![i].send = sga_free(slot)]
                        ELSE [sockets EXCEPT ![i].recv = sga_free(slot)]
          /\ call' = [call EXCEPT !.i = call.i + 1]
          /\ UNCHANGED <<tokens, next_tok, next_qd, qds, ep, items, kernel, epoll_buf, ret>>

\* socket_destroy: one pass of the loop over {send, recv}; the wait on a
\* pending token has no timeout, so the step waits for the completion
DestroySlot ==
    /\ call.pc = "close"
    /\ LET i == call.s
           soc == sockets[i]
           sgas_count == 2 - (IF socket_is_accepting(soc) THEN 1 ELSE 0)
           slot == IF call.i = 0 THEN soc.send ELSE soc.recv
       IN /\ call.i < sgas_count
          /\ IF sga_is_empty(slot)
             THEN /\ call' = [call EXCEPT !.i = call.i + 1]
                  /\ UNCHANGED <<sockets, tokens, next_tok, next_qd, qds, ep, items, kernel, epoll_buf, ret>>
             ELSE IF slot.pending /\ slot.tok \notin DOMAIN tokens
             THEN Abort("close")
             ELSE /\ slot.pending => tokens[slot.tok].done
                  /\ tokens' = IF slot.pending THEN Harvest(Machine, slot.tok).tokens
                               ELSE tokens
                  /\ sockets' = IF call.i = 0
                                THEN [sockets EXCEPT ![i].send = sga_free(slot)]
                                ELSE [sockets EXCEPT ![i].recv = sga_free(slot)]
                  /\ call' = [call EXCEPT !.i = call.i + 1]
                  /\ UNCHANGED <<next_tok, next_qd, qds, ep, items, kernel, epoll_buf, ret>>

\* socket_destroy: demi_close(soc->qd), and the return of close
DestroyClose ==
    /\ call.pc = "close"
    /\ LET i == call.s
           soc == sockets[i]
           sgas_count == 2 - (IF socket_is_accepting(soc) THEN 1 ELSE 0)
       IN /\ call.i >= sgas_count
          /\ IF soc.qd \notin DOMAIN qds THEN Abort("close")
             ELSE /\ qds' = [q \in (DOMAIN qds) \ {soc.qd} |-> qds[q]]
                  /\ call' = Idle
                  /\ ret' = Ret("close", i, 0, "", << >>, << >>)
                  /\ UNCHANGED <<sockets, tokens, next_tok, next_qd, ep, items, kernel, epoll_buf>>

\* dpoll_epoll_create: dpoll_create_impl takes a slot of epoll_buf for the
\* new set, and the handle is the slot index moved by DPOLL_EPOLL_OFFSET.
\* ep follows the set of slot 0.
EpollCreate ==
    /\ call.pc = "idle"
    /\ LET r == buf_next(epoll_buf) IN
       /\ r.buf.size <= MaxEpolls
       /\ epoll_buf' = r.buf
       /\ ep' = IF r.fd = 0 THEN [live |-> TRUE, tree |-> {}, ready_list |-> NULL] ELSE ep
       /\ ret' = Ret("epoll_create", 0, maybe_add(r.fd, DPOLL_EPOLL_OFFSET), "", << >>, << >>)
    /\ UNCHANGED <<sockets, tokens, next_tok, next_qd, qds, items, kernel, call>>

\* dpoll_close on the handle of the epoll set of slot fd >= 1, a set the
\* model does not follow: dpoll_close_impl frees the slot when qd_is_epoll
\* holds of the handle, and takes the handle for a socket's otherwise
EpollClose(fd) ==
    /\ call.pc = "idle"
    /\ fd >= 1
    /\ buf_is_live(epoll_buf, fd)
    /\ LET qd == maybe_add(fd, DPOLL_EPOLL_OFFSET) IN
       IF qd_is_epoll(qd)
       THEN /\ epoll_buf' = buf_free(epoll_buf, get_epoll_fd(qd))
            /\ ret' = Ret("close", 0, 0, "", << >>, << >>)
            /\ UNCHANGED <<sockets, tokens, next_tok, next_qd, qds, ep, items, kernel, call>>
       ELSE IF get_socket_fd(qd) + 1 > Len(sockets) THEN Abort("close")
       ELSE /\ sockets' = [sockets EXCEPT ![get_socket_fd(qd) + 1].open = FALSE]
            /\ call' = [Idle EXCEPT !.pc = "close", !.s = get_socket_fd(qd) + 1, !.i = 0]
            /\ UNCHANGED <<tokens, next_tok, next_qd, qds, ep, items, kernel, epoll_buf, ret>>

\* epoll_add: the item is allocated and initialised; RB_INSERT leaves the
\* tree alone when it already holds an item with that key
epoll_add(I, e, i, events) ==
    IF i \in e.tree THEN [I |-> I, tree |-> e.tree, ret |-> 0]
    ELSE [I |-> [a \in (DOMAIN I) \cup {i} |->
                   IF a = i THEN [soc |-> i, subevs |-> events, data |-> Handle(i),
                                  next |-> i, prev |-> i, live |-> TRUE]
                   ELSE I[a]],
          tree |-> e.tree \cup {i}, ret |-> 0]

\* epoll_del
epoll_del(I, e, it) ==
    IF it = NULL THEN [I |-> I, tree |-> e.tree, ret |-> -1]
    ELSE LET I1 == IF ~list_is_empty(I, it) THEN list_remove(I, it) ELSE I
         IN [I |-> [I1 EXCEPT ![it].live = FALSE], tree |-> e.tree \ {it}, ret |-> 0]

\* epoll_mod
epoll_mod(I, e, it, events) ==
    IF it = NULL THEN [I |-> I, tree |-> e.tree, ret |-> -1]
    ELSE [I |-> [I EXCEPT ![it].subevs = events], tree |-> e.tree, ret |-> 0]

\* dpoll_ctl_impl on a bypass socket
Ctl(op, i, events) ==
    /\ call.pc = "idle"
    /\ ep.live
    /\ sockets[i].open
    /\ LET it == ep_find_item(sockets, items, ep.tree, sockets[i].qd)
           r == IF op = "ADD" THEN epoll_add(items, ep, i, events)
                ELSE IF op = "DEL" THEN epoll_del(items, ep, it)
                ELSE epoll_mod(items, ep, it, events)
       IN /\ items' = free_items(r.I, ep.ready_list)
          /\ ep' = [ep EXCEPT !.tree = r.tree]
          /\ ret' = Ret("ctl", i, r.ret, IF r.ret < 0 THEN "ENOENT" ELSE "", << >>, << >>)
    /\ UNCHANGED <<sockets, tokens, next_tok, next_qd, qds, kernel, epoll_buf, call>>

\* dpoll_ctl_impl on a kernel descriptor: passed to the kernel epoll
CtlKernel ==
    /\ call.pc = "idle"
    /\ ep.live
    /\ ~kernel.reg
    /\ kernel' = [kernel EXCEPT !.reg = TRUE]
    /\ UNCHANGED epoll_buf
    /\ ret' = Ret("ctl", 0, 0, "", << >>, << >>)
    /\ UNCHANGED <<sockets, tokens, next_tok, next_qd, qds, ep, items, call>>

\* the kernel descriptor becomes readable
KernelReady ==
    /\ call.pc # "aborted"
    /\ kernel.reg /\ ~kernel.ready
    /\ kernel' = [kernel EXCEPT !.ready = TRUE]
    /\ UNCHANGED epoll_buf
    /\ UNCHANGED <<sockets, tokens, next_tok, next_qd, qds, ep, items, call, ret>>

\* add_epoll_events that goes to the kernel epoll_pwait only when the
\* ready-list gave no event
EmitEventsBypassOnly(d, tree, maxevents, epoll_timeout, swept, harv) ==
    /\ items' = free_items(d.I, d.ready_list)
    /\ ep' = [ep EXCEPT !.tree = tree, !.ready_list = d.ready_list]
    /\ IF Len(d.evs) = 0
       THEN /\ call' = [Idle EXCEPT !.pc = "epoll_pwait", !.maxevents = maxevents,
                                    !.epoll_timeout = epoll_timeout, !.evs = d.evs,
                                    !.swept_ready = swept, !.harvested = harv]
            /\ UNCHANGED ret
       ELSE /\ call' = Idle
            /\ ret' = [Ret("wait", 0, Len(d.evs), "", << >>, d.evs)
                          EXCEPT !.harv = harv, !.maxevents = maxevents]

\* add_epoll_events of dpoll_pwait_impl after ep_drain_ready_list has
\* returned d: either return or go to the kernel epoll_pwait for the room
\* that is left
EmitEvents(d, tree, maxevents, epoll_timeout, swept, harv) ==
    /\ items' = free_items(d.I, d.ready_list)
    /\ ep' = [ep EXCEPT !.tree = tree, !.ready_list = d.ready_list]
    /\ IF maxevents - Len(d.evs) > 0
       THEN /\ call' = [Idle EXCEPT !.pc = "epoll_pwait", !.maxevents = maxevents,
                                    !.epoll_timeout = epoll_timeout, !.evs = d.evs,
                                    !.swept_ready = swept, !.harvested = harv]
            /\ UNCHANGED ret
       ELSE /\ call' = Idle
            /\ ret' = [Ret("wait", 0, Len(d.evs), "", << >>, d.evs)
                          EXCEPT !.harv = harv, !.maxevents = maxevents]

\* add_epoll_events of dpoll_pwait_impl: drain the ready list, then emit
AddEpollEvents(socs, I, tree, ready_list, maxevents, epoll_timeout, swept, harv) ==
    EmitEvents(ep_drain_ready_list(socs, I, ready_list, maxevents),
               tree, maxevents, epoll_timeout, swept, harv)

\* dpoll_pwait_impl after check_and_schedule_evs has returned sw: either
\* add_epoll_events (no token collected) or the call of demi_wait_any
WaitSwept(sw, maxevents, timeout) ==
    /\ sw.m.next_tok <= MaxTok + 1
    /\ IF sw.abort THEN Abort("sweep")
       ELSE /\ Commit(sw.m)
            /\ UNCHANGED <<kernel, epoll_buf>>
            /\ IF Len(sw.toks) = 0
               THEN AddEpollEvents(sw.m.sockets, sw.I, sw.tree, sw.ready_list,
                                   maxevents, timeout, sw.ready_list # NULL, NULL)
               ELSE /\ items' = free_items(sw.I, sw.ready_list)
                    /\ ep' = [ep EXCEPT !.tree = sw.tree, !.ready_list = sw.ready_list]
                    /\ call' = [Idle EXCEPT
                                  !.pc = "wait_any", !.toks = sw.toks,
                                  !.maxevents = maxevents,
                                  !.timeout = IF sw.ready_list # NULL THEN 0 ELSE timeout,
                                  !.swept_ready = sw.ready_list # NULL]
                    /\ UNCHANGED ret

\* dpoll_pwait_impl up to its first blocking point: the sweep, then either
\* add_epoll_events or the call of demi_wait_any
Wait(maxevents, timeout) ==
    /\ call.pc = "idle"
    /\ ep.live
    /\ WaitSwept(check_and_schedule_evs(Machine, items, ep), maxevents, timeout)

\* demi_wait_any returns the completion of token t of the collected ones
WaitAnyCompletes(t) ==
    /\ call.pc = "wait_any"
    /\ \E k \in 1..Len(call.toks) : call.toks[k] = t
    /\ t \in DOMAIN tokens /\ tokens[t].done
    /\ LET res == tokens[t].res
           m1 == Harvest(Machine, t)
           it == ep_find_item(sockets, items, ep.tree, tokens[t].qd)
       IN IF it = NULL
          THEN /\ Commit(m1)
               /\ UNCHANGED <<kernel, epoll_buf>>
               /\ AddEpollEvents(sockets, items, ep.tree, ep.ready_list,
                                 call.maxevents, 0, call.swept_ready, NULL)
          ELSE LET h == socket_handle_event(m1, items[it].soc, res)
                   l == IF ~list_contains_elem(items, ep.ready_list, it)
                        THEN list_add_to_head(items, ep.ready_list, it)
                        ELSE [I |-> items, head |-> ep.ready_list]
               IN IF h.abort THEN Abort("handle_event")
                  ELSE /\ Commit(h.m)
                       /\ UNCHANGED <<kernel, epoll_buf>>
                       /\ AddEpollEvents(h.m.sockets, l.I, ep.tree, l.head,
                                         call.maxevents, 0, call.swept_ready, it)

\* the ETIMEDOUT path that hands the timeout of demi_wait_any on to the
\* kernel epoll_pwait
WaitAnyTimesOutTwice ==
    /\ call.pc = "wait_any"
    /\ call.timeout >= 0
    /\ \A k \in 1..Len(call.toks) :
          call.toks[k] \in DOMAIN tokens /\ ~tokens[call.toks[k]].done
    /\ UNCHANGED <<sockets, tokens, next_tok, next_qd, qds, kernel, epoll_buf>>
    /\ AddEpollEvents(sockets, items, ep.tree, ep.ready_list,
                      call.maxevents, call.timeout, call.swept_ready, NULL)

\* demi_wait_any returns ETIMEDOUT: no collected token has completed and
\* the timeout is not infinite
WaitAnyTimesOut ==
    /\ call.pc = "wait_any"
    /\ call.timeout >= 0
    /\ \A k \in 1..Len(call.toks) :
          call.toks[k] \in DOMAIN tokens /\ ~tokens[call.toks[k]].done
    /\ UNCHANGED <<sockets, tokens, next_tok, next_qd, qds, kernel, epoll_buf>>
    /\ AddEpollEvents(sockets, items, ep.tree, ep.ready_list,
                      call.maxevents, 0, call.swept_ready, NULL)

\* the return of dpoll_pwait_impl with the kernel events put in front of
\* the drained ones
EpollPwaitKernelFirst ==
    /\ call.pc = "epoll_pwait"
    /\ LET kready == kernel.reg /\ kernel.ready
           kevs == IF kready
                   THEN <<[events |-> {EPOLLIN}, data |-> 0, item |-> NULL]>>
                   ELSE << >>
           evs == kevs \o call.evs
       IN /\ kready \/ call.epoll_timeout >= 0
          /\ call' = Idle
          /\ ret' = [Ret("wait", 0, Len(evs), "", << >>, evs)
                        EXCEPT !.harv = call.harvested, !.maxevents = call.maxevents]
    /\ UNCHANGED <<sockets, tokens, next_tok, next_qd, qds, ep, items, kernel, epoll_buf>>

\* the kernel epoll_pwait on ep->epollfd and the return of dpoll_pwait_impl
\* (an infinite timeout waits until the kernel descriptor is ready)
EpollPwait ==
    /\ call.pc = "epoll_pwait"
    /\ LET kready == kernel.reg /\ kernel.ready
           kevs == IF kready
                   THEN <<[events |-> {EPOLLIN}, data |-> 0, item |-> NULL]>>
                   ELSE << >>
           evs == call.evs \o kevs
       IN /\ kready \/ call.epoll_timeout >= 0
          /\ call' = Idle
          /\ ret' = [Ret("wait", 0, Len(evs), "", << >>, evs)
                        EXCEPT !.harv = call.harvested, !.maxevents = call.maxevents]
    /\ UNCHANGED <<sockets, tokens, next_tok, next_qd, qds, ep, items, kernel, epoll_buf>>

Next ==
    \/ Socket
    \/ \E i \in 1..Len(sockets) : Listen(i)
    \/ \E i \in 1..Len(sockets) : Accept(i)
    \/ \E i \in 1..Len(sockets), len \in 0..(MaxLen + 1) : Read(i, len)
    \/ \E i \in 1..Len(sockets), a \in 1..MaxLen : Readv(i, <<a, MaxLen>>)
    \/ \E i \in 1..Len(sockets), buf \in WriteBufs :
          \E segs \in Segmentations(Len(buf)) : Write(i, buf, segs)
    \/ \E i \in 1..Len(sockets), iov \in Iovs :
          \E segs \in Segmentations(MaxLen) : Writev(i, iov, segs)
    \/ \E i \in 1..Len(sockets) : Close(i)
    \/ DestroySlot
    \/ DestroyClose
    \/ EpollCreate
    \/ \E fd \in 1..(MaxEpolls - 1) : EpollClose(fd)
    \/ \E op \in {"ADD", "MOD", "DEL"}, i \in 1..Len(sockets), events \in Masks :
          Ctl(op, i, events)
    \/ CtlKernel
    \/ KernelReady
    \/ \E maxevents \in 1..MaxEvents, timeout \in Timeouts : Wait(maxevents, timeout)
    \/ \E t \in DOMAIN tokens : WaitAnyCompletes(t)
    \/ WaitAnyTimesOut
    \/ EpollPwait
    \/ \E t \in DOMAIN tokens : \E res \in Completions(tokens[t].op) : BackendComplete(t, res)

Spec == Init /\ [][Next]_vars



\* ------------------------------------------------------------------------
\* The server after its setup (test_exe/main.c): socket, epoll_create,
\* listen, and epoll_ctl(ADD) of the listening socket for EPOLLIN.
\* ------------------------------------------------------------------------
ServerMachine ==
    LET m == socket_init([sockets |-> << >>, tokens |-> << >>, next_tok |-> 1,
                          next_qd |-> 1, qds |-> << >>])
    IN [m EXCEPT !.sockets[1].recv_off = -1, !.qds[1] = "listening"]

ServerItems ==
    epoll_add(<< >>, [live |-> TRUE, tree |-> {}, ready_list |-> NULL], 1, {EPOLLIN})

InitServer ==
    /\ sockets = ServerMachine.sockets
    /\ tokens = ServerMachine.tokens
    /\ next_tok = ServerMachine.next_tok
    /\ next_qd = ServerMachine.next_qd
    /\ qds = ServerMachine.qds
    /\ ep = [live |-> TRUE, tree |-> ServerItems.tree, ready_list |-> NULL]
    /\ items = ServerItems.I
    /\ kernel = [reg |-> FALSE, ready |-> FALSE]
    /\ epoll_buf = buf_next(EmptyBuf).buf
    /\ call = Idle
    /\ ret = Ret("ctl", 1, 0, "", << >>, << >>)

\* ------------------------------------------------------------------------
\* The server with one accepted connection (test_exe/main.c up to its
\* second epoll_pwait): after the setup, epoll_pwait, accept,
\* epoll_ctl(DEL) of the listening socket and epoll_ctl(ADD) of the
\* accepted one for EPOLLIN.  The accept token 1 has been harvested;
\* dpoll_accept_impl's socket_init has left backend descriptor 3 behind.
\* ------------------------------------------------------------------------
ConnectedSockets ==
    << [open |-> TRUE, qd |-> 1, recv_off |-> -1, send |-> IdleSlot,
        recv |-> [IdleSlot EXCEPT !.tok = 1], accept_qd |-> -1,
        accept_addr |-> PeerAddr(2), addr |-> 0],
       [open |-> TRUE, qd |-> 2, recv_off |-> 0, send |-> IdleSlot,
        recv |-> IdleSlot, accept_qd |-> -1, accept_addr |-> 0,
        addr |-> PeerAddr(2)] >>

InitConnected ==
    /\ sockets = ConnectedSockets
    /\ tokens = << >>
    /\ next_tok = 2
    /\ next_qd = 4
    /\ qds = (1 :> "listening") @@ (2 :> "connected") @@ (3 :> "fresh")
    /\ ep = [live |-> TRUE, tree |-> {2}, ready_list |-> NULL]
    /\ items = (2 :> [soc |-> 2, subevs |-> {EPOLLIN}, data |-> Handle(2),
                      next |-> 2, prev |-> 2, live |-> TRUE])
    /\ kernel = [reg |-> FALSE, ready |-> FALSE]
    /\ epoll_buf = buf_next(EmptyBuf).buf
    /\ call = Idle
    /\ ret = Ret("ctl", 2, 0, "", << >>, << >>)

\* ------------------------------------------------------------------------
\* The connection: read, readv, write, writev, wait and close on the
\* accepted socket in every interleaving.
\* ------------------------------------------------------------------------
NextConn ==
    \/ \E len \in {1, MaxLen} : Read(2, len)
    \/ Readv(2, <<1, MaxLen>>)
    \/ \E segs \in Segmentations(MaxLen) : Write(2, Bytes(MaxLen), segs)
    \/ \E iov \in Iovs : \E segs \in Segmentations(MaxLen) : Writev(2, iov, segs)
    \/ Close(2)
    \/ DestroySlot
    \/ DestroyClose
    \/ \E timeout \in {-1, 0} : Wait(MaxEvents, timeout)
    \/ \E t \in DOMAIN tokens : WaitAnyCompletes(t)
    \/ WaitAnyTimesOut
    \/ EpollPwait
    \/ \E t \in DOMAIN tokens : \E res \in Completions(tokens[t].op) : BackendComplete(t, res)

SpecConn == InitConnected /\ [][NextConn]_vars

\* ------------------------------------------------------------------------
\* The receive path of the connection: reads of every length and readv
\* against what the pops deliver, under waits without a timeout.
\* ------------------------------------------------------------------------
NextRead ==
    \/ \E len \in 0..(MaxLen + 1) : Read(2, len)
    \/ \E a \in 1..MaxLen : Readv(2, <<a, MaxLen>>)
    \/ Wait(MaxEvents, -1)
    \/ \E t \in DOMAIN tokens : WaitAnyCompletes(t)
    \/ \E t \in DOMAIN tokens : \E res \in Completions(tokens[t].op) : BackendComplete(t, res)

SpecRead == InitConnected /\ [][NextRead]_vars

\* ------------------------------------------------------------------------
\* The listening socket: accept and close against the backend's accept
\* completions, under waits without a timeout.
\* ------------------------------------------------------------------------
NextAccept ==
    \/ \E i \in 1..Len(sockets) : Accept(i)
    \/ \E i \in 1..Len(sockets) : Close(i)
    \/ DestroySlot
    \/ DestroyClose
    \/ Wait(MaxEvents, -1)
    \/ \E t \in DOMAIN tokens : WaitAnyCompletes(t)
    \/ EpollPwait
    \/ \E t \in DOMAIN tokens : \E res \in Completions(tokens[t].op) : BackendComplete(t, res)

SpecAccept == InitServer /\ [][NextAccept]_vars

\* ------------------------------------------------------------------------
\* The server's event loop over sockets watched for EPOLLIN: accept, read
\* of everything buffered, epoll_ctl(ADD) of the accepted sockets and
\* waits with every maxevents and no timeout.  The backend delivers whole
\* SGAs.
\* ------------------------------------------------------------------------
Delivers(op) == {res \in Completions(op) : res.opcode # "FAILED" /\ Len(res.sga) <= 1}

NextPoll ==
    \/ \E i \in 1..Len(sockets) : Accept(i)
    \/ \E i \in 1..Len(sockets) : Read(i, MaxLen + 1)
    \/ \E i \in 2..Len(sockets) : Ctl("ADD", i, {EPOLLIN})
    \/ \E maxevents \in 1..MaxEvents : Wait(maxevents, -1)
    \/ \E t \in DOMAIN tokens : WaitAnyCompletes(t)
    \/ WaitAnyTimesOut
    \/ EpollPwait
    \/ \E t \in DOMAIN tokens : \E res \in Delivers(tokens[t].op) : BackendComplete(t, res)

SpecPoll == InitServer /\ [][NextPoll]_vars

\* ------------------------------------------------------------------------
\* The connection watched for any of the event masks: write, read of
\* everything buffered, epoll_ctl(MOD) and waits, with and without a
\* timeout.
\* ------------------------------------------------------------------------
NextOut ==
    \/ \E segs \in Segmentations(MaxLen) : Write(2, Bytes(MaxLen), segs)
    \/ Read(2, MaxLen + 1)
    \/ \E events \in Masks : Ctl("MOD", 2, events)
    \/ \E timeout \in {-1, 0} : Wait(MaxEvents, timeout)
    \/ \E t \in DOMAIN tokens : WaitAnyCompletes(t)
    \/ WaitAnyTimesOut
    \/ EpollPwait
    \/ \E t \in DOMAIN tokens : \E res \in Completions(tokens[t].op) : BackendComplete(t, res)

SpecOut == InitConnected /\ [][NextOut]_vars

\* ------------------------------------------------------------------------
\* Properties
\* ------------------------------------------------------------------------
\* the tokens submitted on socket i's descriptor for one of the operations
\* ops and not yet harvested
SlotTokens(i, ops) ==
    {t \in DOMAIN tokens : tokens[t].qd = sockets[i].qd /\ tokens[t].op \in ops}

Returned == call.pc = "idle"

\* C1: at every return from a public call, for every socket, a slot's
\* pending flag is true if and only if a token submitted for that slot has
\* not yet been harvested (recv and accept share their slot).
PendingIffOutstanding ==
    Returned =>
        \A i \in 1..Len(sockets) :
            /\ sockets[i].recv.pending <=> SlotTokens(i, {"pop", "accept"}) # {}
            /\ sockets[i].send.pending <=> SlotTokens(i, {"push"}) # {}

\* C3: at most one accept token per socket is outstanding, and it is the
\* one the accept slot stores.
SingleAcceptInFlight ==
    \A i \in 1..Len(sockets) :
        /\ Cardinality(SlotTokens(i, {"accept"})) <= 1
        /\ \A t \in SlotTokens(i, {"accept"}) :
              sockets[i].recv.pending /\ sockets[i].recv.tok = t

\* C8: no token is outstanding on a backend descriptor that close has
\* released.
NoTokenOnReleasedQd ==
    \A t \in DOMAIN tokens : tokens[t].qd \in DOMAIN qds

\* C2: on a connected socket at most one pop token and at most one push
\* token are outstanding; an outstanding pop is the one the recv slot
\* stores, pending and with no SGA buffered, and an outstanding push is the
\* one the send slot stores, pending.
OnePopOnePush ==
    \A i \in 1..Len(sockets) :
        ~socket_is_accepting(sockets[i]) =>
            /\ Cardinality(SlotTokens(i, {"pop"})) <= 1
            /\ Cardinality(SlotTokens(i, {"push"})) <= 1
            /\ \A t \in SlotTokens(i, {"pop"}) :
                  /\ sockets[i].recv.pending /\ sockets[i].recv.tok = t
                  /\ sga_is_empty(sockets[i].recv)
            /\ \A t \in SlotTokens(i, {"push"}) :
                  sockets[i].send.pending /\ sockets[i].send.tok = t

\* a write has just probed a push in flight and returned would-block while
\* a pop is in flight on the same socket
PopAndPushInFlight ==
    /\ Returned
    /\ ret.call \in {"write", "writev"} /\ ret.errno = "EWOULDBLOCK"
    /\ SlotTokens(ret.s, {"pop"}) # {}
    /\ SlotTokens(ret.s, {"push"}) # {}

\* C9: while a push is in flight on the socket being closed, the backend
\* descriptor is not released and close has not returned; once the
\* descriptor is released the push has been harvested and the send SGA
\* freed; close returns only after the release.
CloseAwaitsPush ==
    \A i \in 1..Len(sockets) :
        /\ (call.pc = "close" /\ call.s = i /\ SlotTokens(i, {"push"}) # {})
              => sockets[i].qd \in DOMAIN qds
        /\ (~sockets[i].open /\ sockets[i].qd \notin DOMAIN qds)
              => /\ SlotTokens(i, {"push"}) = {}
                 /\ sga_is_empty(sockets[i].send)
                 /\ ~sockets[i].send.pending
        /\ (Returned /\ ret.call = "close" /\ ret.s = i)
              => sockets[i].qd \notin DOMAIN qds

\* close, called right after the write that submitted the push, has waited
\* for the push, harvested it and freed the send SGA, and has not yet
\* released the descriptor
CloseHarvestedPush ==
    /\ call.pc = "close" /\ call.i = 1
    /\ ret.call = "write" /\ ret.ret > 0 /\ ret.s = call.s
    /\ sockets[call.s].send.tok \notin DOMAIN tokens
    /\ sga_is_empty(sockets[call.s].send) /\ ~sockets[call.s].send.pending
    /\ sockets[call.s].qd \in DOMAIN qds

\* C10: a read or readv that returns n >= 0 delivers exactly the n bytes
\* of the buffered (or just popped) SGA that follow the bytes delivered
\* before, in order; the SGA then either stays buffered with its offset
\* advanced by n, or has been freed and all its bytes have been delivered.
ReadDeliversStream ==
    [][\A i \in 1..Len(sockets) :
          (/\ call.pc = "idle" /\ call'.pc = "idle"
           /\ ret'.call \in {"read", "readv"} /\ ret'.s = i /\ ret'.ret >= 0
           /\ sockets'[i] # sockets[i])
          => LET soc == sockets[i]
                 popped == soc.recv.pending /\ soc.recv.tok \in DOMAIN tokens
                 sga == IF popped THEN tokens[soc.recv.tok].res.sga ELSE soc.recv.elem
                 off == IF popped THEN 0 ELSE soc.recv_off
                 n == ret'.ret
             IN /\ n = Len(ret'.out)
                /\ off + n <= Len(SgaBytes(sga))
                /\ ret'.out = SubSeq(SgaBytes(sga), off + 1, off + n)
                /\ IF sga_is_empty(sockets'[i].recv)
                   THEN off + n = Len(SgaBytes(sga))
                   ELSE sockets'[i].recv.elem = sga /\ sockets'[i].recv_off = off + n
      ]_vars

\* a read has delivered bytes from the middle of a two-segment SGA that an
\* earlier read had started
ReadContinuedSga ==
    /\ Returned
    /\ ret.call = "read" /\ ret.ret > 0
    /\ Len(sockets[ret.s].recv.elem) = 2
    /\ sockets[ret.s].recv_off > ret.ret

\* the events a socket is ready for: EPOLLIN when it can be read (accepted
\* from, for a listening socket), EPOLLOUT when it can be written
ReadyEvents(soc) ==
    (IF (IF socket_is_accepting(soc) THEN socket_can_accept(soc)
         ELSE socket_can_read(soc))
     THEN {EPOLLIN} ELSE {})
    \cup (IF socket_can_write(soc) THEN {EPOLLOUT} ELSE {})

\* C4: every event a wait returns for a bypass socket carries the item's
\* user data and the mask subscribed \cap ready events of its socket.
EmittedMaskExact ==
    (Returned /\ ret.call = "wait") =>
        \A k \in 1..Len(ret.evs) :
            LET e == ret.evs[k] IN
            (e.item # NULL /\ e.item \in DOMAIN items) =>
                /\ e.data = items[e.item].data
                /\ e.events = items[e.item].subevs
                                 \cap ReadyEvents(sockets[items[e.item].soc])

\* C5: a wait never returns an event whose mask is 0: every item it
\* drains from the ready-list has a subscribed event available.
NoEmptyEventEmitted ==
    (Returned /\ ret.call = "wait") =>
        \A k \in 1..Len(ret.evs) : ret.evs[k].events # {}

\* C6: when the ready-list is not empty after the sweep, neither
\* demi_wait_any nor the kernel epoll_pwait is called with a timeout other
\* than 0.
NoBlockingWhenReady ==
    /\ (call.pc = "wait_any" /\ call.swept_ready) => call.timeout = 0
    /\ (call.pc = "epoll_pwait" /\ call.swept_ready) => call.epoll_timeout = 0

\* C7: a wait that harvested a completion for a watched socket returns
\* that socket's event, unless the events before it filled maxevents.
HarvestedItemEmitted ==
    (Returned /\ ret.call = "wait" /\ ret.harv # NULL) =>
        \/ \E k \in 1..Len(ret.evs) : ret.evs[k].item = ret.harv
        \/ Len(ret.evs) >= ret.maxevents


\* no pop is in flight on the socket and no undelivered byte is buffered:
\* the recv slot is empty, or every byte of its SGA has been delivered
Exhausted(soc) ==
    /\ ~soc.recv.pending
    /\ \/ sga_is_empty(soc.recv)
       \/ /\ Len(SgaBytes(soc.recv.elem)) > 0
          /\ soc.recv_off >= Len(SgaBytes(soc.recv.elem))

\* C11: once the last byte of the buffered SGA has been delivered, a read
\* with len > 0 submits a new pop and returns -1 with EWOULDBLOCK; it does
\* not return 0.
ReadAfterLastByteResubmits ==
    [][\A i \in 1..Len(sockets) : \A len \in 1..(MaxLen + 1) :
          (Exhausted(sockets[i]) /\ Read(i, len))
          => /\ call'.pc = "idle"
             /\ ret'.ret = -1 /\ ret'.errno = "EWOULDBLOCK"
             /\ sockets'[i].recv.pending
             /\ \E t \in (DOMAIN tokens') \ (DOMAIN tokens) :
                   tokens'[t].op = "pop" /\ tokens'[t].qd = sockets[i].qd
      ]_vars


\* C12: a connected socket can be read exactly while its recv slot buffers
\* an SGA with at least one undelivered byte.
CanReadIffUndelivered ==
    \A i \in 1..Len(sockets) :
        (sockets[i].open /\ ~socket_is_accepting(sockets[i])) =>
            (socket_can_read(sockets[i])
                <=> /\ ~sga_is_empty(sockets[i].recv)
                    /\ sockets[i].recv_off < Len(SgaBytes(sockets[i].recv.elem)))


\* ------------------------------------------------------------------------
\* The connection and the listening socket both watched for EPOLLIN:
\* partial and whole reads of the connection, epoll_ctl(ADD) of the
\* listening socket and waits with every maxevents, with and without a
\* timeout.  The backend delivers whole SGAs.
\* ------------------------------------------------------------------------
NextLevel ==
    \/ Ctl("ADD", 1, {EPOLLIN})
    \/ \E len \in {1, MaxLen} : Read(2, len)
    \/ \E maxevents \in 1..MaxEvents, timeout \in {-1, 0} : Wait(maxevents, timeout)
    \/ \E t \in DOMAIN tokens : WaitAnyCompletes(t)
    \/ WaitAnyTimesOut
    \/ EpollPwait
    \/ \E t \in DOMAIN tokens : \E res \in Delivers(tokens[t].op) : BackendComplete(t, res)

SpecLevel == InitConnected /\ [][NextLevel]_vars

\* the recv slot buffers an SGA of which some bytes, and not all, have been
\* delivered
PartlyConsumed(soc) ==
    /\ ~soc.recv.pending /\ ~sga_is_empty(soc.recv)
    /\ 0 < soc.recv_off /\ soc.recv_off < Len(SgaBytes(soc.recv.elem))

\* item a is reached from head h of the ready-list in at most n steps
RECURSIVE Linked(_, _, _, _)
Linked(I, h, a, n) ==
    /\ h # NULL /\ h \in DOMAIN I
    /\ \/ h = a
       \/ n > 0 /\ I[h].next # h /\ Linked(I, I[h].next, a, n - 1)

ReportedIn ==
    IF Returned /\ ret.call = "wait"
    THEN {items[ret.evs[k].item].soc :
             k \in {j \in 1..Len(ret.evs) :
                       /\ ret.evs[j].item \in ep.tree
                       /\ items[ret.evs[j].item].subevs = {EPOLLIN}}}
    ELSE {}

\* C14: an accept on a listening socket for which the wait before it
\* reported an event returns a bypass socket handle and leaves the accept
\* slot idle.
AcceptAfterEventSucceeds ==
    [][\A i \in ReportedIn :
          (socket_is_accepting(sockets[i]) /\ Accept(i))
          => /\ call'.pc = "idle"
             /\ ret'.call = "accept" /\ ret'.ret >= DPOLL_SOCKET_OFFSET
             /\ ~sockets'[i].recv.pending /\ accept_is_empty(sockets'[i])
      ]_vars


\* C15: a read on a connected socket for which the wait before it
\* reported an event returns a byte count >= 0 and submits no pop.
ReadAfterEventDelivers ==
    [][\A i \in ReportedIn : \A len \in 0..(MaxLen + 1) :
          (~socket_is_accepting(sockets[i]) /\ Read(i, len))
          => /\ call'.pc = "idle"
             /\ ret'.call = "read" /\ ret'.ret >= 0
             /\ DOMAIN tokens' \subseteq DOMAIN tokens
      ]_vars


\* ------------------------------------------------------------------------
\* The send path of the connection: writes of every length, each into
\* every segmentation the backend may allocate, against the completions of
\* the pushes, probed by the next write or harvested by a wait.
\* ------------------------------------------------------------------------
NextWrite ==
    \/ \E buf \in WriteBufs : \E segs \in Segmentations(Len(buf)) : Write(2, buf, segs)
    \/ \E timeout \in {-1, 0} : Wait(MaxEvents, timeout)
    \/ \E t \in DOMAIN tokens : WaitAnyCompletes(t)
    \/ WaitAnyTimesOut
    \/ EpollPwait
    \/ \E t \in DOMAIN tokens : \E res \in Completions(tokens[t].op) : BackendComplete(t, res)

SpecWrite == InitConnected /\ [][NextWrite]_vars

FailedCompletion(slot) ==
    /\ slot.pending
    /\ slot.tok \in DOMAIN tokens
    /\ tokens[slot.tok].done
    /\ tokens[slot.tok].res.opcode = "FAILED"

\* C17: the call that harvests a completion of opcode FAILED (a read, a
\* write or an accept probing its slot, or a wait whose wait-any returns
\* it) does not abort, installs no payload in the slot, and a read, write
\* or accept returns -1 with errno set to the backend's code.
FailureReturnedAsError ==
    [][/\ \A i \in 1..Len(sockets) : \A len \in 0..(MaxLen + 1) :
            (FailedCompletion(sockets[i].recv) /\ ~socket_is_accepting(sockets[i])
             /\ Read(i, len))
            => /\ call'.pc = "idle" /\ ret'.ret = -1
               /\ ret'.errno = tokens[sockets[i].recv.tok].res.err
               /\ sga_is_empty(sockets'[i].recv)
       /\ \A i \in 1..Len(sockets) : \A buf \in WriteBufs :
          \A segs \in Segmentations(Len(buf)) :
            (FailedCompletion(sockets[i].send) /\ Write(i, buf, segs))
            => /\ call'.pc = "idle" /\ ret'.ret = -1
               /\ ret'.errno = tokens[sockets[i].send.tok].res.err
       /\ \A i \in 1..Len(sockets) :
            (FailedCompletion(sockets[i].recv) /\ socket_is_accepting(sockets[i])
             /\ Accept(i))
            => /\ call'.pc = "idle" /\ ret'.ret = -1
               /\ ret'.errno = tokens[sockets[i].recv.tok].res.err
               /\ accept_is_empty(sockets'[i])
       /\ \A t \in DOMAIN tokens :
            (tokens[t].done /\ tokens[t].res.opcode = "FAILED"
             /\ WaitAnyCompletes(t))
            => call'.pc # "aborted"
      ]_vars


\* the token of the slot is outstanding: a zero-timeout demi_wait on it
\* returns ETIMEDOUT
ProbeTimesOut(slot) ==
    /\ slot.pending
    /\ slot.tok \in DOMAIN tokens
    /\ ~tokens[slot.tok].done

NextEvict ==
    \/ Ctl("ADD", 1, {EPOLLIN})
    \/ \E i \in 1..Len(sockets) : Close(i)
    \/ DestroySlot
    \/ DestroyClose
    \/ \E maxevents \in 1..MaxEvents : \E timeout \in {-1, 0} : Wait(maxevents, timeout)
    \/ \E t \in DOMAIN tokens : WaitAnyCompletes(t)
    \/ WaitAnyTimesOut
    \/ EpollPwait
    \/ \E t \in DOMAIN tokens : \E res \in Delivers(tokens[t].op) : BackendComplete(t, res)

SpecEvict == InitConnected /\ [][NextEvict]_vars

\* C19: the sweep of a wait does not abort, and when it has finished no
\* item of a closed socket is left in the container of the epoll set or on
\* its ready-list, however many closed sockets the set was watching.
SweepEvictsClosed ==
    [][\A maxevents \in 1..MaxEvents : \A timeout \in {-1, 0} :
          Wait(maxevents, timeout)
          => /\ ~(call'.pc = "aborted" /\ call'.why = "sweep")
             /\ call'.pc # "aborted"
                => \A a \in DOMAIN items' :
                      (a \in ep'.tree \/ Linked(items', ep'.ready_list, a, MaxSockets))
                      => sockets'[items'[a].soc].open
      ]_vars


\* C20: a closed socket stays closed, no step after its close submits a
\* backend operation on its queue descriptor, and the token set a wait
\* hands to demi_wait_any holds no token of a closed socket.
ClosedStaysQuiet ==
    /\ [][call'.pc # "aborted"
          => \A i \in 1..Len(sockets) :
                ~sockets[i].open
                => /\ i <= Len(sockets') /\ ~sockets'[i].open
                   /\ \A t \in (DOMAIN tokens') \ (DOMAIN tokens) :
                         tokens'[t].qd # sockets[i].qd
         ]_vars
    /\ [](call.pc = "wait_any"
          => \A k \in 1..Len(call.toks) : \A i \in 1..Len(sockets) :
                (~sockets[i].open /\ call.toks[k] \in DOMAIN tokens)
                => tokens[call.toks[k]].qd # sockets[i].qd)

\* a wait is in demi_wait_any after a sweep that evicted the item of a
\* closed socket whose pop is still outstanding
SweptPastClosed ==
    /\ call.pc = "wait_any"
    /\ \E i \in 1..Len(sockets) :
          /\ ~sockets[i].open
          /\ ProbeTimesOut(sockets[i].recv)
          /\ \A a \in ep.tree : items[a].soc # i


\* ------------------------------------------------------------------------
\* Leaving the epoll set: the listener joins the set and either socket
\* leaves it while reads, writes, accepts and polling waits go on and the
\* backend completes their tokens.
\* ------------------------------------------------------------------------
NextDel ==
    \/ Ctl("ADD", 1, {EPOLLIN})
    \/ \E i \in 1..2 : Ctl("DEL", i, {})
    \/ Accept(1)
    \/ Read(2, MaxLen + 1)
    \/ Write(2, Bytes(1), <<1>>)
    \/ Wait(MaxEvents, 0)
    \/ \E t \in DOMAIN tokens : WaitAnyCompletes(t)
    \/ WaitAnyTimesOut
    \/ EpollPwait
    \/ \E t \in DOMAIN tokens : \E res \in Delivers(tokens[t].op) : BackendComplete(t, res)

SpecDel == InitConnected /\ [][NextDel]_vars

\* the epoll set holds no item for socket i
Unwatched(i) == ep_find_item(sockets, items, ep.tree, sockets[i].qd) = NULL

\* epoll_ctl(DEL) on socket i has just returned 0
JustDeleted(i) ==
    /\ call.pc = "idle" /\ ret.call = "ctl" /\ ret.s = i /\ ret.ret = 0
    /\ Unwatched(i)

\* the token of the slot has completed without failure
Completed(slot) ==
    /\ slot.pending
    /\ slot.tok \in DOMAIN tokens
    /\ tokens[slot.tok].done
    /\ tokens[slot.tok].res.opcode # "FAILED"

\* C21: epoll_ctl(DEL) on a watched socket returns 0 and removes its item
\* from the set, leaving every slot of every socket and the backend's
\* tokens as they were; the read, write or accept that follows the DEL
\* harvests the token that was in flight at the DEL and has completed.
DelLeavesTokens ==
    [][/\ \A i \in 1..Len(sockets) :
            Ctl("DEL", i, {})
            => /\ sockets' = sockets /\ tokens' = tokens
               /\ next_tok' = next_tok /\ qds' = qds
               /\ ~Unwatched(i) => (ret'.ret = 0 /\ Unwatched(i)')
       /\ \A i \in 1..Len(sockets) : \A len \in 0..(MaxLen + 1) :
            (JustDeleted(i) /\ Completed(sockets[i].recv)
             /\ ~socket_is_accepting(sockets[i]) /\ Read(i, len))
            => /\ call'.pc = "idle" /\ ret'.ret >= 0
               /\ sockets[i].recv.tok \notin DOMAIN tokens'
       /\ \A i \in 1..Len(sockets) : \A buf \in WriteBufs :
          \A segs \in Segmentations(Len(buf)) :
            (JustDeleted(i) /\ Completed(sockets[i].send) /\ Write(i, buf, segs))
            => /\ call'.pc = "idle" /\ ret'.ret = Len(buf)
               /\ sockets[i].send.tok \notin DOMAIN tokens'
       /\ \A i \in 1..Len(sockets) :
            (JustDeleted(i) /\ Completed(sockets[i].recv)
             /\ socket_is_accepting(sockets[i]) /\ Accept(i))
            => /\ call'.pc = "idle" /\ ret'.ret >= DPOLL_SOCKET_OFFSET
               /\ sockets[i].recv.tok \notin DOMAIN tokens'
      ]_vars


\* ------------------------------------------------------------------------
\* Handles: the server, having filled every handle between the two offsets
\* with an epoll set, creates one more, opens sockets and accepts
\* connections between polling waits.
\* ------------------------------------------------------------------------
InitHandles ==
    /\ sockets = ServerMachine.sockets
    /\ tokens = ServerMachine.tokens
    /\ next_tok = ServerMachine.next_tok
    /\ next_qd = ServerMachine.next_qd
    /\ qds = ServerMachine.qds
    /\ ep = [live |-> TRUE, tree |-> ServerItems.tree, ready_list |-> NULL]
    /\ items = ServerItems.I
    /\ kernel = [reg |-> FALSE, ready |-> FALSE]
    /\ epoll_buf = [EmptyBuf EXCEPT !.size = MaxEpolls - 1]
    /\ call = Idle
    /\ ret = Ret("epoll_create", 0, maybe_add(MaxEpolls - 2, DPOLL_EPOLL_OFFSET), "", << >>, << >>)

NextHandles ==
    \/ EpollCreate
    \/ Socket
    \/ Accept(1)
    \/ Wait(1, 0)
    \/ \E t \in DOMAIN tokens : WaitAnyCompletes(t)
    \/ WaitAnyTimesOut
    \/ EpollPwait
    \/ \E t \in DOMAIN tokens : \E res \in Delivers(tokens[t].op) : BackendComplete(t, res)

SpecHandles == InitHandles /\ [][NextHandles]_vars

\* the handles of the epoll sets alive in epoll_buf
EpollHandles == {maybe_add(fd, DPOLL_EPOLL_OFFSET) : fd \in {k \in 0..(epoll_buf.size - 1) : buf_is_live(epoll_buf, k)}}

\* the handles of the sockets of the slab
SocketHandles == {Handle(i) : i \in 1..Len(sockets)}

\* C22: every handle epoll_create returns, and the handle of every epoll
\* set alive, is at least DPOLL_EPOLL_OFFSET and below DPOLL_SOCKET_OFFSET,
\* so that qd_is_epoll holds of it; every handle socket() or accept()
\* returns, and the handle of every socket, is at least DPOLL_SOCKET_OFFSET;
\* no epoll set and socket share a handle.
HandlesPartitioned ==
    /\ \A h \in EpollHandles : qd_is_epoll(h)
    /\ \A h \in SocketHandles : qd_is_dpoll(h) /\ ~qd_is_epoll(h)
    /\ EpollHandles \cap SocketHandles = {}
    /\ (call.pc = "idle" /\ ret.call = "epoll_create" /\ ret.ret > -1)
          => qd_is_epoll(ret.ret)
    /\ (call.pc = "idle" /\ ret.call \in {"socket", "accept"} /\ ret.ret > -1)
          => (qd_is_dpoll(ret.ret) /\ ~qd_is_epoll(ret.ret))


\* ------------------------------------------------------------------------
\* A kernel descriptor next to the sockets: the listener and the
\* descriptor are added to the epoll set and the descriptor becomes
\* readable while reads and waits of every maxevents and timeout go on.
\* ------------------------------------------------------------------------
NextMixed ==
    \/ Ctl("ADD", 1, {EPOLLIN})
    \/ CtlKernel
    \/ KernelReady
    \/ \E len \in {1, MaxLen + 1} : Read(2, len)
    \/ \E maxevents \in 1..MaxEvents : \E timeout \in Timeouts : Wait(maxevents, timeout)
    \/ \E t \in DOMAIN tokens : WaitAnyCompletes(t)
    \/ WaitAnyTimesOut
    \/ EpollPwait
    \/ \E t \in DOMAIN tokens : \E res \in Delivers(tokens[t].op) : BackendComplete(t, res)

SpecMixed == InitConnected /\ [][NextMixed]_vars

\* a wait has just returned its events
WaitReturned == call.pc = "idle" /\ ret.call = "wait" /\ ret.ret >= 0

\* the positions of the returned array holding events of kernel
\* descriptors, and those holding events of bypass sockets
KernelEvs == {k \in 1..Len(ret.evs) : ret.evs[k].item = NULL}
BypassEvs == {k \in 1..Len(ret.evs) : ret.evs[k].item # NULL}

WaitWithinMaxevents ==
    /\ call.pc = "epoll_pwait" => Len(call.evs) <= call.maxevents
    /\ WaitReturned
       => /\ Len(ret.evs) <= ret.maxevents
          /\ ret.ret = Cardinality(BypassEvs) + Cardinality(KernelEvs)

\* a wait with maxevents 1 has returned one bypass event and left an item
\* on the ready-list, the kernel descriptor being ready
WaitFilledArray ==
    /\ WaitReturned /\ ret.maxevents = 1 /\ ret.ret = 1
    /\ BypassEvs # {}
    /\ ep.ready_list # NULL
    /\ kernel.reg /\ kernel.ready


\* C25: a wait whose sweep collected a token calls demi_wait_any with the
\* caller's timeout, or with 0 when the ready-list is not empty, and goes
\* on to the kernel epoll_pwait with timeout 0; a wait whose sweep
\* collected no token does not call demi_wait_any and hands the caller's
\* timeout to the kernel epoll_pwait.
TimeoutAppliedOnce ==
    [][/\ \A maxevents \in 1..MaxEvents : \A timeout \in Timeouts :
            (Wait(maxevents, timeout) /\ call'.pc # "aborted")
            => IF Len(check_and_schedule_evs(Machine, items, ep).toks) > 0
               THEN /\ call'.pc = "wait_any"
                    /\ call'.toks = check_and_schedule_evs(Machine, items, ep).toks
                    /\ call'.timeout = IF ep'.ready_list # NULL THEN 0 ELSE timeout
               ELSE /\ call'.pc # "wait_any"
                    /\ call'.pc = "epoll_pwait" => call'.epoll_timeout = timeout
       /\ (call.pc = "wait_any" /\ call'.pc = "epoll_pwait")
            => call'.epoll_timeout = 0
      ]_vars

\* a wait with a positive timeout whose demi_wait_any timed out is in the
\* kernel epoll_pwait
TimedOutThenPolling ==
    /\ call.pc = "epoll_pwait"
    /\ call.epoll_timeout = 0
    /\ call.evs = << >>
    /\ \E i \in 1..Len(sockets) : ProbeTimesOut(sockets[i].recv)


\* ------------------------------------------------------------------------
\* Polling: the listening socket and the connection watched for EPOLLIN,
\* accept, read of everything buffered and waits with timeout 0 of every
\* maxevents.
\* ------------------------------------------------------------------------
NextNonblock ==
    \/ Ctl("ADD", 1, {EPOLLIN})
    \/ Accept(1)
    \/ Read(2, MaxLen + 1)
    \/ \E maxevents \in 1..MaxEvents : Wait(maxevents, 0)
    \/ \E t \in DOMAIN tokens : WaitAnyCompletes(t)
    \/ WaitAnyTimesOut
    \/ EpollPwait
    \/ \E t \in DOMAIN tokens : \E res \in Delivers(tokens[t].op) : BackendComplete(t, res)

SpecNonblock == InitConnected /\ [][NextNonblock]_vars

\* a subscribed event of the watched item is available on its socket
SubscribedAvailable(it) ==
    \/ /\ EPOLLIN \in it.subevs
       /\ IF socket_is_accepting(sockets[it.soc])
          THEN socket_can_accept(sockets[it.soc])
          ELSE socket_can_read(sockets[it.soc])
    \/ /\ EPOLLOUT \in it.subevs
       /\ socket_can_write(sockets[it.soc])

\* nothing is ready: no watched item has a subscribed event available, no
\* outstanding token has completed and the kernel descriptor is not ready
NothingReady ==
    /\ \A a \in ep.tree : ~SubscribedAvailable(items[a])
    /\ \A t \in DOMAIN tokens : ~tokens[t].done
    /\ ~(kernel.reg /\ kernel.ready)

\* C26: a wait with timeout 0 calls demi_wait_any, if at all, with timeout
\* 0 and the kernel epoll_pwait with timeout 0, and a wait that returns
\* while nothing is ready returns 0.
PollNeverBlocks ==
    /\ [][/\ \A maxevents \in 1..MaxEvents :
               Wait(maxevents, 0)
               => /\ call'.pc = "wait_any" => call'.timeout = 0
                  /\ call'.pc = "epoll_pwait" => call'.epoll_timeout = 0
          /\ (call.pc = "wait_any" /\ call'.pc = "epoll_pwait")
               => call'.epoll_timeout = 0
         ]_vars
    /\ []((WaitReturned /\ NothingReady) => ret.ret = 0)


\* the connection is the one watched socket, its pop has completed at the
\* backend, and the registered kernel descriptor is ready
BothReady ==
    /\ ep.tree = {2}
    /\ kernel.reg /\ kernel.ready
    /\ sockets[2].recv.pending
    /\ sockets[2].recv.tok \in DOMAIN tokens
    /\ tokens[sockets[2].recv.tok].done

\* C27: a wait with maxevents >= 2 called while the one watched socket's
\* pop has completed and the registered kernel descriptor is ready hands
\* the pop's token to demi_wait_any, emits the socket's event when the
\* token is harvested, goes on to the kernel epoll_pwait, and returns 2
\* events: the socket's and the kernel descriptor's.
OneWaitReturnsBoth ==
    [][/\ \A maxevents \in 2..MaxEvents : \A timeout \in Timeouts :
            (BothReady /\ Wait(maxevents, timeout))
            => /\ call'.pc = "wait_any"
               /\ call'.maxevents = maxevents
               /\ call'.toks = <<sockets[2].recv.tok>>
       /\ (BothReady /\ call.pc = "wait_any" /\ call.maxevents >= 2
             /\ call'.pc # "wait_any")
            => /\ call'.pc = "epoll_pwait"
               /\ Len(call'.evs) = 1
               /\ call'.evs[1].item = 2 /\ call'.evs[1].events = {EPOLLIN}
       /\ (call.pc = "epoll_pwait" /\ kernel.reg /\ kernel.ready
             /\ ep.tree = {2} /\ Len(call.evs) = 1 /\ call'.pc # "epoll_pwait")
            => /\ call'.pc = "idle"
               /\ ret'.call = "wait" /\ ret'.ret = 2
               /\ ret'.evs[1] = call.evs[1]
               /\ ret'.evs[2].item = NULL /\ ret'.evs[2].events = {EPOLLIN}
      ]_vars

\* a wait that harvested the connection's pop has returned its event and
\* the kernel descriptor's
HarvestedAndKernelReturned ==
    /\ WaitReturned
    /\ ep.tree = {2}
    /\ ret.ret = 2
    /\ ret.harv = 2
    /\ ret.evs[1].item = 2
    /\ ret.evs[2].item = NULL


\* the accept result the listening socket i is about to hand out: the
\* completion of its token, or the result a wait has stored in its slot
AcceptResult(i) ==
    IF sockets[i].recv.pending /\ sockets[i].recv.tok \in DOMAIN tokens
    THEN [qd |-> tokens[sockets[i].recv.tok].res.aqd,
          addr |-> tokens[sockets[i].recv.tok].res.addr]
    ELSE [qd |-> sockets[i].accept_qd, addr |-> sockets[i].accept_addr]

\* C28: a successful accept returns a handle that no open socket has; the
\* socket behind it is open on the descriptor of the accept completion,
\* which is a connection of the backend, stores the completion's peer
\* address, is not accepting, and has idle recv and send slots; the accept
\* slot of the listening socket is empty and not pending.
AcceptWrapsCompletion ==
    [][\A i \in 1..Len(sockets) :
          (Accept(i) /\ call'.pc = "idle" /\ ret'.ret >= 0)
          => /\ qd_is_dpoll(ret'.ret) /\ ~qd_is_epoll(ret'.ret)
             /\ \A j \in 1..Len(sockets) : sockets[j].open => Handle(j) # ret'.ret
             /\ get_socket_fd(ret'.ret) + 1 \in 1..Len(sockets')
             /\ LET new_soc == sockets'[get_socket_fd(ret'.ret) + 1] IN
                /\ new_soc.open
                /\ new_soc.qd = AcceptResult(i).qd
                /\ new_soc.qd \in DOMAIN qds' /\ qds'[new_soc.qd] = "connected"
                /\ new_soc.addr = AcceptResult(i).addr
                /\ new_soc.addr = PeerAddr(new_soc.qd)
                /\ ~socket_is_accepting(new_soc)
                /\ ~new_soc.recv.pending /\ sga_is_empty(new_soc.recv)
                /\ ~new_soc.send.pending /\ sga_is_empty(new_soc.send)
             /\ accept_is_empty(sockets'[i]) /\ ~sockets'[i].recv.pending
      ]_vars

\* an accept has returned the second connection after the first one was
\* closed
AcceptedAfterClose ==
    /\ Returned /\ ret.call = "accept" /\ ret.ret = Handle(3)
    /\ sockets[3].open /\ sockets[3].addr = PeerAddr(sockets[3].qd)
    /\ ~sockets[2].open


SweepFindsPushInFlight ==
    [][\A timeout \in Timeouts :
          Wait(MaxEvents, timeout)
          => \A a \in ep.tree :
                sockets[items[a].soc].open
                => /\ EPOLLOUT \in Xor(available_events(sockets, items[a]),
                                       items[a].subevs)
                        => sockets[items[a].soc].send.pending
                   /\ (/\ EPOLLOUT \in items[a].subevs
                       /\ socket_can_write(sockets[items[a].soc])
                       /\ ~sockets[items[a].soc].recv.pending)
                        => call'.pc # "aborted"
      ]_vars


\* C31: at every return from a public call the send slot of every open
\* socket is idle (empty, not pending) or pending with its SGA buffered
\* and its push outstanding, never buffered and not pending; and a write
\* on a slot that is not pending does not reach the "unreachable state"
\* abort.
SendSlotIdleOrPending ==
    /\ [](Returned =>
            \A i \in 1..Len(sockets) :
               sockets[i].open
               => IF sockets[i].send.pending
                  THEN /\ ~sga_is_empty(sockets[i].send)
                       /\ sockets[i].send.tok \in DOMAIN tokens
                       /\ tokens[sockets[i].send.tok].op = "push"
                  ELSE sga_is_empty(sockets[i].send))
    /\ [][\A segs \in Segmentations(MaxLen) :
            (~sockets[2].send.pending /\ Write(2, Bytes(MaxLen), segs))
            => call'.pc = "idle" /\ ret'.ret = MaxLen
         ]_vars


\* ------------------------------------------------------------------------
\* The slab by itself: epoll_buf under every sequence of name##_next() and
\* name##_free(fd) of an allocated index, up to MaxSlots slots.
\* ------------------------------------------------------------------------
SlabNext ==
    /\ call.pc = "idle"
    /\ buf_next(epoll_buf).buf.size <= MaxSlots
    /\ epoll_buf' = buf_next(epoll_buf).buf
    /\ ret' = Ret("epoll_buf_next", 0, buf_next(epoll_buf).fd, "", << >>, << >>)
    /\ UNCHANGED <<sockets, tokens, next_tok, next_qd, qds, ep, items, kernel, call>>

SlabFree(fd) ==
    /\ call.pc = "idle"
    /\ buf_is_live(epoll_buf, fd)
    /\ epoll_buf' = buf_free(epoll_buf, fd)
    /\ ret' = Ret("epoll_buf_free", 0, fd, "", << >>, << >>)
    /\ UNCHANGED <<sockets, tokens, next_tok, next_qd, qds, ep, items, kernel, call>>

NextSlab ==
    \/ SlabNext
    \/ \E fd \in 0..(MaxSlots - 1) : SlabFree(fd)

SpecSlab == Init /\ [][NextSlab]_vars

\* the free-list: the indices reached from next_free along the links of
\* the freed slots
RECURSIVE FreeChain(_, _, _)
FreeChain(b, fd, fuel) ==
    IF fd = -1 \/ fuel = 0 \/ fd \notin DOMAIN b.items THEN << >>
    ELSE <<fd>> \o FreeChain(b, b.items[fd], fuel - 1)

FreeList(b) == FreeChain(b, b.next_free, b.size)

\* C32: name##_next() never returns an allocated index: the index it
\* returns was free or is the new last slot, it is allocated afterwards and
\* every other slot is as before; the free-list holds freed slots only,
\* each of them once.
NextReturnsFreeIndex ==
    /\ [][SlabNext
          => /\ ~buf_is_live(epoll_buf, ret'.ret)
             /\ buf_is_live(epoll_buf', ret'.ret)
             /\ \A k \in 0..(MaxSlots - 1) :
                   k # ret'.ret => (buf_is_live(epoll_buf', k) <=> buf_is_live(epoll_buf, k))
         ]_vars
    /\ [](/\ epoll_buf.next_free = -1 \/ epoll_buf.next_free \in DOMAIN epoll_buf.items
          /\ \A k \in DOMAIN epoll_buf.items :
                epoll_buf.items[k] = -1 \/ epoll_buf.items[k] \in DOMAIN epoll_buf.items
          /\ \A p, q \in 1..Len(FreeList(epoll_buf)) :
                FreeList(epoll_buf)[p] = FreeList(epoll_buf)[q] => p = q)

\* a freed index has been handed out again while other slots are allocated
FreedIndexReused ==
    /\ ret.call = "epoll_buf_next"
    /\ ret.ret < epoll_buf.size - 1
    /\ buf_is_live(epoll_buf, ret.ret)
    /\ \E k \in 0..(epoll_buf.size - 1) : k # ret.ret /\ buf_is_live(epoll_buf, k)


\* C33: name##_free(fd) puts fd in front of the free-list, so that every
\* freed slot is on the free-list; name##_next() returns a freed index
\* whenever there is one and grows the slab only when there is none.
FreePrepends ==
    /\ [][/\ \A fd \in 0..(MaxSlots - 1) :
               SlabFree(fd)
               => FreeList(epoll_buf') = <<fd>> \o FreeList(epoll_buf)
          /\ SlabNext
               => IF DOMAIN epoll_buf.items # {}
                  THEN /\ ret'.ret \in DOMAIN epoll_buf.items
                       /\ epoll_buf'.size = epoll_buf.size
                  ELSE /\ ret'.ret = epoll_buf.size
                       /\ epoll_buf'.size = epoll_buf.size + 1
         ]_vars
    /\ []({FreeList(epoll_buf)[p] : p \in 1..Len(FreeList(epoll_buf))}
             = DOMAIN epoll_buf.items)


\* the items met from the head of a list along the next pointers, up to
\* the return to the head
RECURSIVE ListFrom(_, _, _, _)
ListFrom(I, head, it, fuel) ==
    IF fuel = 0 \/ it \notin DOMAIN I THEN << >>
    ELSE IF I[it].next = head THEN <<it>>
    ELSE <<it>> \o ListFrom(I, head, I[it].next, fuel - 1)

ReadyList(I, head) ==
    IF head = NULL THEN << >> ELSE ListFrom(I, head, head, Cardinality(DOMAIN I))

\* the list is a ring: the next pointers lead from the head through
\* different items back to the head, and prev is the inverse of next
IsRing(I, head) ==
    LET l == ReadyList(I, head) IN
    head # NULL
    => /\ \A p, q \in 1..Len(l) : l[p] = l[q] => p = q
       /\ \A p \in 1..Len(l) :
             /\ l[p] \in DOMAIN I
             /\ I[l[p]].next = (IF p = Len(l) THEN head ELSE l[p + 1])
             /\ I[l[p]].prev = (IF p = 1 THEN l[Len(l)] ELSE l[p - 1])

\* C34: after the sweep of a wait the ready-list is a ring that holds
\* every watched item with an available event, each once, and no wait
\* returns two events of one item.
SweepLinksOnce ==
    /\ [][\A maxevents \in 1..MaxEvents : \A timeout \in Timeouts :
            (Wait(maxevents, timeout) /\ call'.pc # "aborted")
            => /\ IsRing(check_and_schedule_evs(Machine, items, ep).I,
                         check_and_schedule_evs(Machine, items, ep).ready_list)
               /\ \A a \in ep'.tree :
                     (sockets'[items'[a].soc].open
                        /\ available_events(sockets', items'[a]) # {})
                     => \E p \in 1..Len(ReadyList(
                                  check_and_schedule_evs(Machine, items, ep).I,
                                  check_and_schedule_evs(Machine, items, ep).ready_list)) :
                           ReadyList(check_and_schedule_evs(Machine, items, ep).I,
                                     check_and_schedule_evs(Machine, items, ep).ready_list)[p] = a
         ]_vars
    /\ [](WaitReturned
            => \A p, q \in BypassEvs : ret.evs[p].item = ret.evs[q].item => p = q)


\* ------------------------------------------------------------------------
\* The server with two connections: the listening socket and both
\* connections watched for EPOLLIN, and waits with room for an event of
\* each of them.
\* ------------------------------------------------------------------------
NextOrder ==
    \/ \E i \in (1..Len(sockets)) \ {2} : Ctl("ADD", i, {EPOLLIN})
    \/ Accept(1)
    \/ Wait(MaxEvents + 1, 0)
    \/ \E t \in DOMAIN tokens : WaitAnyCompletes(t)
    \/ WaitAnyTimesOut
    \/ EpollPwait
    \/ \E t \in DOMAIN tokens : \E res \in Delivers(tokens[t].op) : BackendComplete(t, res)

SpecOrder == InitConnected /\ [][NextOrder]_vars

\* the place of item a in the order in which the sweep visits the items
SweepPlace(a) ==
    CHOOSE p \in 1..Len(TreeOrder(sockets, items, ep.tree)) :
        TreeOrder(sockets, items, ep.tree)[p] = a

\* C35: a wait that starts with an empty ready-list and whose sweep links
\* the available items, one after the other, emits their events in the
\* order in which the sweep linked them.
EmittedInLinkOrder ==
    [][(/\ Wait(MaxEvents + 1, 0)
        /\ ep.ready_list = NULL
        /\ call'.pc = "idle")
       => \A p, q \in 1..Len(ret'.evs) :
             p < q => SweepPlace(ret'.evs[p].item) < SweepPlace(ret'.evs[q].item)
      ]_vars


\* C36: the SGA of a send slot is given up only by sga_free, in the probe
\* of a write or writev or in socket_destroy, and only with its push
\* harvested: a step that replaces or drops the SGA a send slot holds is
\* a step of one of these calls, and if the slot was pending its token had
\* completed and is harvested by that step.
SendSgaFreedOnce ==
    [][\A i \in 1..Len(sockets) :
          (/\ call'.pc # "aborted"
           /\ ~sga_is_empty(sockets[i].send)
           /\ sockets'[i].send.elem # sockets[i].send.elem)
          => /\ call.pc \in {"idle", "close"}
             /\ sockets[i].send.pending
                  => /\ sockets[i].send.tok \in DOMAIN tokens
                     /\ tokens[sockets[i].send.tok].done
                     /\ sockets[i].send.tok \notin DOMAIN tokens'
      ]_vars


\* ------------------------------------------------------------------------
\* Leaving the set with events left behind: both sockets are watched for
\* EPOLLIN, waits take one event at a time, and either socket leaves the
\* set between them.
\* ------------------------------------------------------------------------
NextLeft ==
    \/ Ctl("ADD", 1, {EPOLLIN})
    \/ \E i \in 1..2 : Ctl("DEL", i, {})
    \/ Wait(1, 0)
    \/ \E t \in DOMAIN tokens : WaitAnyCompletes(t)
    \/ WaitAnyTimesOut
    \/ EpollPwait
    \/ \E t \in DOMAIN tokens : \E res \in Delivers(tokens[t].op) : BackendComplete(t, res)

SpecLeft == InitConnected /\ [][NextLeft]_vars

\* C37: every item reachable from the ready-list is in the item tree of
\* the set: a ctl(DEL) that removed an item leaves the ready-list head and
\* the list behind it within the tree, and every bypass event a wait
\* returns is the event of an item that the tree held during that wait.
ReadyListWithinTree ==
    /\ [][\A i \in 1..Len(sockets) :
             (Ctl("DEL", i, {}) /\ ret'.ret = 0)
             => \A p \in 1..Len(ReadyList(items', ep'.ready_list)) :
                   ReadyList(items', ep'.ready_list)[p] \in ep'.tree]_vars
    /\ [][(call'.pc = "idle" /\ ret'.call = "wait" /\ ret' # ret)
             => \A k \in 1..Len(ret'.evs) :
                   ret'.evs[k].item # NULL => ret'.evs[k].item \in ep.tree]_vars


\* ------------------------------------------------------------------------
\* One event at a time: the listening socket and two accepted connections
\* are watched for EPOLLIN and the program keeps calling a wait with room
\* for a single event, as the loop of main does: it calls the wait again
\* and again, a polling demi_wait_any returns and so does the kernel
\* epoll_pwait with timeout 0.
\* ------------------------------------------------------------------------
NextFair ==
    \/ \E i \in (1..Len(sockets)) \ {2} : Ctl("ADD", i, {EPOLLIN})
    \/ Accept(1)
    \/ Wait(1, 0)
    \/ \E t \in DOMAIN tokens : WaitAnyCompletes(t)
    \/ WaitAnyTimesOut
    \/ EpollPwait
    \/ \E t \in DOMAIN tokens : \E res \in Delivers(tokens[t].op) : BackendComplete(t, res)

SpecFair ==
    /\ InitConnected
    /\ [][NextFair]_vars
    /\ []<><<Wait(1, 0)>>_vars
    /\ WF_vars(WaitAnyTimesOut)
    /\ WF_vars(EpollPwait)

\* the wait that has just returned emitted the event of item a
Emitted(a) ==
    /\ WaitReturned
    /\ \E k \in 1..Len(ret.evs) : ret.evs[k].item = a

\* C38: an item that from some wait on stays in the set with a subscribed
\* event available has its event emitted again and again by the waits
\* that follow, whatever else is ready in the set.
FairEmission ==
    \A a \in 1..MaxSockets :
        <>[](a \in ep.tree /\ SubscribedAvailable(items[a])) => []<>Emitted(a)


\* ------------------------------------------------------------------------
\* The kernel descriptor next to the sockets, with the blocking calls
\* returning: a demi_wait_any with a timeout returns once the timeout has
\* passed, and the kernel epoll_pwait returns once its timeout has passed
\* or the descriptor is ready.  (demi_wait_any also returns a completed
\* token; the runs looked at are those in which no token completes.)
\* ------------------------------------------------------------------------
SpecMixedFair ==
    /\ InitConnected
    /\ [][NextMixed]_vars
    /\ WF_vars(WaitAnyTimesOut)
    /\ WF_vars(EpollPwait)

\* a wait with an infinite timeout is under way while the registered
\* kernel descriptor is ready
InfiniteWaitKernelReady ==
    /\ kernel.reg /\ kernel.ready
    /\ call.pc \in {"wait_any", "epoll_pwait"}
    /\ call.timeout < 0

\* C39: when no outstanding token ever completes, a wait with an infinite
\* timeout that is under way while the registered kernel descriptor is
\* ready eventually returns an event of the kernel descriptor.
KernelEventDespiteTokens ==
    [](\A t \in DOMAIN tokens : ~tokens[t].done)
    => (InfiniteWaitKernelReady ~> (WaitReturned /\ KernelEvs # {}))


\* the accepted descriptors the backend has delivered that no accept call
\* has returned yet: those of completed accept tokens and of installed
\* accept results
Undelivered ==
    {tokens[t].res.aqd : t \in {u \in DOMAIN tokens : tokens[u].done /\ tokens[u].res.opcode = "ACCEPT"}}
    \cup {sockets[i].accept_qd : i \in {j \in 1..Len(sockets) : ~accept_is_empty(sockets[j])}}

\* C40: an accept call that returns a socket leaves the set of backend
\* descriptors as it was, and between the calls every backend descriptor
\* that is not closed and not waiting to be accepted is the descriptor of
\* exactly one open socket.
AcceptLeaksNoQd ==
    /\ [][\A i \in 1..Len(sockets) :
             (Accept(i) /\ ret'.ret >= 0) => DOMAIN qds' = DOMAIN qds]_vars
    /\ [](call.pc = "idle"
          => \A q \in (DOMAIN qds) \ Undelivered :
                Cardinality({i \in 1..Len(sockets) :
                                sockets[i].open /\ sockets[i].qd = q}) = 1)

====
